---- MODULE Spec2Model ----
(***************************************************************************)
(* Model of the SYMMETRIX kernel core:                                     *)
(*   kernel/symmetrix-galois.c  finite-field engine (add, mul, pow, inv,   *)
(*                              CRT decompose / reconstruct)               *)
(*   kernel/symmetrix-galois.c  symmetrix_galois_matrix_mul                *)
(*   kernel/symmetrix-core.c    resource stalks, symmetrix_select_cpu,     *)
(*                              the H2 cohomology sampler, the tensor      *)
(*                              allocator, the status report, and          *)
(*                              symmetrix_init / symmetrix_exit            *)
(*                                                                         *)
(* Machine words.  The C code computes in u64, s64 and u128.  TLC's        *)
(* integers are 32 bits wide, so a u64 is modelled as a word of WordBits   *)
(* bits (U64 = 2^WordBits plays the part of 2^64), an s64 as the two's     *)
(* complement reading of such a word, and a u128 as an intermediate of     *)
(* twice that width.  Every u64 operation of the code is reduced modulo    *)
(* U64 where the code's operation wraps; every (u128)x * y of the code is  *)
(* the exact product, which a double-width intermediate always holds.      *)
(* The CRT prime table is scaled with the word: the code's primes lie just *)
(* below 2^31 (so two of them fit a u64 and three do not); the model's lie *)
(* just below 2^13 (two of them fit a word, three do not).                 *)
(***************************************************************************)
EXTENDS Integers, Sequences, FiniteSets, TLC

VARIABLES
    galois_engine,          \* static struct galois_engine (symmetrix-galois.c:15)
    g_a, g_b,               \* the operands of a field operation (struct galois_element)
    g_op,                   \* the field operation last applied
    g_res,                  \* the element it returned
    pow_base, pow_exp, pow_mod,   \* arguments of symmetrix_galois_pow
    pow_done, pow_result,         \* whether it has returned, and its return value
    crt_value, crt_k,       \* arguments of symmetrix_crt_decompose
    crt_pc,                 \* "start", "decomposed", "reconstructed"
    crt_residues,           \* the caller's residues[] array
    crt_dec_rc,             \* return value of symmetrix_crt_decompose
    crt_rec_rc,             \* return value of symmetrix_crt_reconstruct
    crt_out,                \* the caller's *result
    cpu_stalks,             \* symmetrix_global.cpu_stalks[]: resources[], allocated[]
    cpu_online,             \* the kernel's set of online CPUs
    enable_sheaf_scheduler, \* module parameter (symmetrix-core.c:74)
    jiffies,                \* the kernel's tick counter
    h2_cohomology,          \* symmetrix_global.h2_cohomology
    sel_done,               \* whether a call of symmetrix_select_cpu has returned
    sel_prev,               \* its prev_cpu argument
    sel_result,             \* its return value
    mat_n,                  \* argument n of symmetrix_galois_matrix_mul
    mat_a, mat_b,           \* the caller's matrices a[] and b[] (row-major)
    mat_r,                  \* the caller's result[]
    mat_done, mat_rc,       \* whether the call has returned, and its return value
    enable_tensor_allocator,   \* module parameter (symmetrix-core.c:70)
    kmalloc_live,           \* the allocations of kmalloc not yet passed to kfree
    ta_size,                \* argument size of symmetrix_tensor_alloc
    ta_pc,                  \* "start", "allocated", "freed"
    ta_ptr,                 \* the pointer symmetrix_tensor_alloc returned
    ta_log,                 \* what its pr_debug line reports
    init_pc,                \* symmetrix_init: "unloaded", "create", "kthread",
                            \*   "loaded", "failed"
    init_rc,                \* its return value
    symmetrix_proc_dir,     \* "NULL", "registered", "removed"
    proc_status,            \* whether the entry symmetrix/status is registered
    cohomology_thread,      \* "NULL", "task", "ERR"
    thr_pc,                 \* the sampler thread: "none", "created", "check",
                            \*   "work", "sleep", "exited"
    should_stop,            \* kthread_should_stop() of the sampler thread
    sleep_left,             \* ticks left of its ssleep
    exit_pc,                \* symmetrix_exit: "idle", "stopping", "joined", "returned"
    run_ticks,              \* ticks elapsed while a step of the module was runnable
    global_lock,            \* symmetrix_global.global_lock
    stalk_locks,            \* cpu_stalks[].lock
    active_containers,      \* symmetrix_global.active_containers
    enable_msi,             \* module parameter (symmetrix-core.c:54)
    global_msi_engine,      \* the provider's engine, or "NULL"
    rep_done,               \* whether a call of symmetrix_proc_show has returned
    proc_report,            \* what it printed
    pubs_after_stop,        \* samples published since the stop was requested
    crt_primes_ptr,         \* galois_engine.crt_primes, the pointer (0 is NULL)
    power_cache_ptr,        \* galois_engine.power_cache, the pointer (0 is NULL)
    cache_size,             \* galois_engine.cache_size
    power_cache,            \* the array galois_engine.power_cache points to
    eng_live,               \* the engine's tables kmalloc returned, not yet kfree'd
    eng_released,           \* how often each table has been passed to kfree
    eng_next,               \* the next table kmalloc returns
    eng_op,                 \* the engine call that returned last, and its arguments
    eng_rc,                 \* the return value of symmetrix_galois_init
    eng_allocated,          \* the tables that call allocated
    eng_calls,              \* the number of engine calls made
    smp_pc,                 \* the sampler: "compute", "store", "sleep"
    smp_dim,                \* its local h2_dimension
    smp_n,                  \* the number of the sample it is publishing
    smp_pending,            \* the stores of that sample not yet visible
    fld_n,                  \* for each field of h2_cohomology, the sample that wrote it
    rd_pc,                  \* the reader: "dimension", "valid", "test", "age", "done"
    rd_report,              \* what it has printed: dimension, valid, age
    rd_n,                   \* the samples its dimension and its age were read from
    rm_pc,                  \* msi_fpga_remove: "idle", "unpublished", "done"
    msi_freed,              \* whether the engine has been passed to kfree
    st_pc,                  \* msi_get_performance_stats: "idle", "loaded", "done"
    st_engine,              \* its local engine: whether it is non-NULL
    st_stats,               \* the caller's *stats
    am_pc,                  \* msi_amplify_storage_access: "idle", "loaded", "active",
                            \*   "locked", "counted", "done"
    am_engine,              \* its local engine: whether it is non-NULL
    am_addr,                \* its argument logical_address
    am_rc,                  \* its return value
    msi_stale_access        \* the calls that have accessed the engine after its kfree

evars == <<galois_engine>>
gvars == <<g_a, g_b, g_op, g_res>>
pvars == <<pow_base, pow_exp, pow_mod, pow_done, pow_result>>
cvars == <<crt_value, crt_k, crt_pc, crt_residues, crt_dec_rc, crt_rec_rc, crt_out>>
svars == <<cpu_stalks, cpu_online, enable_sheaf_scheduler, jiffies,
           h2_cohomology, sel_done, sel_prev, sel_result>>
mvars == <<mat_n, mat_a, mat_b, mat_r, mat_done, mat_rc>>
tvars == <<enable_tensor_allocator, kmalloc_live, ta_size, ta_pc, ta_ptr, ta_log>>
lvars == <<init_pc, init_rc, symmetrix_proc_dir, proc_status, cohomology_thread,
           thr_pc, should_stop, sleep_left, exit_pc, run_ticks>>
kvars == <<global_lock, stalk_locks, active_containers>>
rvars == <<enable_msi, global_msi_engine, rep_done, proc_report>>

hvars == <<pubs_after_stop>>
nvars == <<crt_primes_ptr, power_cache_ptr, cache_size, power_cache, eng_live,
           eng_released, eng_next, eng_op, eng_rc, eng_allocated, eng_calls>>
xvars == <<smp_pc, smp_dim, smp_n, smp_pending, fld_n, rd_pc, rd_report, rd_n>>
fvars == <<rm_pc, msi_freed, st_pc, st_engine, st_stats, am_pc, am_engine, am_addr,
           am_rc, msi_stale_access>>

vars == <<evars, gvars, pvars, cvars, svars, mvars, tvars, lvars, kvars, rvars,
          hvars, nvars, xvars, fvars>>

-----------------------------------------------------------------------------
(* Machine words *)

\* Width of the model's machine word (the code's u64 has 64 bits).
WordBits == 28

\* 2^WordBits: the number of values of a u64 of the model.
U64 == 2^WordBits

\* ULLONG_MAX, the largest u64.
ULLONG_MAX == U64 - 1

\* The s64 a u64 bit pattern denotes (the implicit conversions of
\* symmetrix_galois_inv, symmetrix-galois.c:156-157).
ToS64(x) == IF x >= U64 \div 2 THEN x - U64 ELSE x

\* The u64 an s64 converts to (symmetrix-galois.c:189).
ToU64(x) == x % U64

Abs(x) == IF x < 0 THEN 0 - x ELSE x

\* C's signed division, which truncates towards zero.
TruncDiv(x, y) ==
    IF (x < 0) = (y < 0) THEN Abs(x) \div Abs(y) ELSE 0 - (Abs(x) \div Abs(y))

\* The exact product x * y reduced modulo m, accumulated bit by bit of y so
\* that no intermediate of the model exceeds 2 * m.
RECURSIVE mulmod_bits(_, _, _)
mulmod_bits(x, y, m) ==
    IF y = 0 THEN 0
    ELSE LET h == mulmod_bits(x, y \div 2, m)
         IN  (((2 * h) % m) + (IF y % 2 = 1 THEN x ELSE 0)) % m

\* x * y in u64: the product truncated to the word.
u64_mul(x, y) == IF x = 0 THEN 0 ELSE mulmod_bits(x, y, U64)

\* (x * y) % m with the product formed in u64: what ((u128)x * y) % m would
\* be without the widening cast.
u64_mulmod(x, y, m) == u64_mul(x, y) % m

\* ((u128)x * y) % m for u64 x, y, m: the exact product of two words (a
\* double-width intermediate always holds it), reduced modulo m.
u128_mulmod(x, y, m) == IF x = 0 THEN 0 ELSE mulmod_bits(x % m, y, m)


-----------------------------------------------------------------------------
(* kernel/symmetrix-galois.c: field elements *)

\* struct galois_element { u64 value; u64 modulus; }
Element(v, m) == [value |-> v, modulus |-> m]

\* symmetrix_galois_add without the comparison of the moduli.
symmetrix_galois_add_unchecked(a, b) ==
    Element(((a.value + b.value) % U64) % a.modulus, a.modulus)

\* symmetrix_galois_add: the sum a.value + b.value is formed in u64 (it
\* wraps at 2^64) and then reduced.
symmetrix_galois_add(a, b) ==
    IF a.modulus # b.modulus
    THEN Element(0, a.modulus)
    ELSE Element(((a.value + b.value) % U64) % a.modulus, a.modulus)

\* symmetrix_galois_mul: the product is formed in u128 and then reduced.
symmetrix_galois_mul(a, b) ==
    IF a.modulus # b.modulus
    THEN Element(0, a.modulus)
    ELSE Element(u128_mulmod(a.value, b.value, a.modulus), a.modulus)

\* The while loop of symmetrix_galois_inv on the s64 variables
\* st = <<old_r, r, old_s, s>> (old_t and t do not reach the result);
\* returns the variables at loop exit.
RECURSIVE inv_loop(_)
inv_loop(st) ==
    IF st[2] = 0 THEN st
    ELSE LET quotient == TruncDiv(st[1], st[2])
         IN  inv_loop(<<st[2], st[1] - quotient * st[2],
                        st[4], st[3] - quotient * st[4]>>)

\* symmetrix_galois_inv: extended Euclid on the s64 readings of
\* (a.modulus, a.value).
symmetrix_galois_inv(a) ==
    IF a.value = 0 THEN Element(0, a.modulus)
    ELSE LET fin   == inv_loop(<<ToS64(a.modulus), ToS64(a.value), 0, 1>>)
             old_r == fin[1]
             old_s == fin[3]
         IN  IF old_r > 1 THEN Element(0, a.modulus)
             ELSE IF old_s < 0
                  THEN Element(ToU64(old_s + a.modulus), a.modulus)
                  ELSE Element(ToU64(old_s), a.modulus)

\* The while loop of symmetrix_galois_pow with the products formed in u64
\* (the (u128) casts missing).
RECURSIVE pow_loop_narrow(_, _)
pow_loop_narrow(st, mod) ==
    IF st[3] = 0 THEN st[1]
    ELSE pow_loop_narrow(
             <<IF st[3] % 2 = 1 THEN u64_mulmod(st[1], st[2], mod) ELSE st[1],
               u64_mulmod(st[2], st[2], mod),
               st[3] \div 2>>, mod)

\* The while loop of symmetrix_galois_pow on st = <<result, b, exp>>;
\* returns result at loop exit.
RECURSIVE pow_loop(_, _)
pow_loop(st, mod) ==
    IF st[3] = 0 THEN st[1]
    ELSE pow_loop(<<IF st[3] % 2 = 1 THEN u128_mulmod(st[1], st[2], mod) ELSE st[1],
                    u128_mulmod(st[2], st[2], mod),
                    st[3] \div 2>>, mod)

\* symmetrix_galois_pow: binary exponentiation.
symmetrix_galois_pow(base, exp, mod) == pow_loop(<<1, base % mod, exp>>, mod)

-----------------------------------------------------------------------------
(* kernel/symmetrix-galois.c: the engine and the CRT *)

\* SYMMETRIX_NUM_CRT_PRIMES: the length of symmetrix_crt_primes[].
SYMMETRIX_NUM_CRT_PRIMES == 8

\* symmetrix_crt_primes[]: eight primes just below the square root of the
\* word range, the first of them the Mersenne prime (2^31 - 1 in the code,
\* 2^13 - 1 in the model).
symmetrix_crt_primes == <<8191, 8179, 8171, 8167, 8161, 8147, 8123, 8117>>

\* SYMMETRIX_MERSENNE_61, the working prime the engine is configured with:
\* the Mersenne prime three bits below the word width in the code, 2^19 - 1
\* in the model.
SYMMETRIX_MERSENNE_61 == 524287

\* The engine symmetrix_galois_init(prime) leaves when both allocations
\* succeed.
symmetrix_galois_init(prime) ==
    [prime          |-> prime,
     num_crt_primes |-> SYMMETRIX_NUM_CRT_PRIMES,
     crt_primes     |-> symmetrix_crt_primes]

\* The engine's state in every specification below: initialised.
EngineInit == galois_engine = symmetrix_galois_init(SYMMETRIX_MERSENNE_61)

\* EINVAL of the kernel's errno (the CRT calls return -EINVAL).
EINVAL == 22

\* The int num_primes compared as a signed int (no conversion).
ToInt(n) == n

\* The int num_primes as the comparison with the size_t
\* SYMMETRIX_NUM_CRT_PRIMES reads it: converted to unsigned.
ToSizeT(n) == n % U64

\* The residues[] array after symmetrix_crt_decompose(value, residues,
\* num_primes); entries from num_primes on keep their content.
crt_decompose_residues(engine, value, residues, num_primes) ==
    [i \in DOMAIN residues |->
        IF i <= num_primes THEN value % engine.crt_primes[i] ELSE residues[i]]

\* "Compute product of all primes": product *= crt_primes[i] in u64.
RECURSIVE crt_product(_, _)
crt_product(engine, n) ==
    IF n <= 0 THEN 1
    ELSE u64_mul(crt_product(engine, n - 1), engine.crt_primes[n])

\* The term the reconstruction loop adds for prime number i.
crt_term(engine, residues, product, i) ==
    LET prime   == engine.crt_primes[i]
        m_i     == product \div prime
        m_i_inv == symmetrix_galois_pow(m_i % prime, prime - 2, prime)
    IN  u128_mulmod(u128_mulmod(residues[i], m_i, product), m_i_inv, product)

\* sum after the first n iterations of the reconstruction loop; the
\* addition sum + term is a u64 addition.
RECURSIVE crt_sum(_, _, _, _)
crt_sum(engine, residues, product, n) ==
    IF n <= 0 THEN 0
    ELSE ((crt_sum(engine, residues, product, n - 1)
           + crt_term(engine, residues, product, n)) % U64) % product

\* *result after a successful symmetrix_crt_reconstruct.
crt_reconstruct_value(engine, residues, num_primes) ==
    crt_sum(engine, residues, crt_product(engine, num_primes), num_primes)

\* The loop over k of symmetrix_galois_matrix_mul for the entry (i, j), on
\* st = <<k, result[i * n + j]>>; index x of the code's arrays is index
\* x + 1 of the model's sequences.  product is formed in u128, the sum
\* result[] + product in u64.
RECURSIVE matrix_entry_loop(_, _, _, _, _, _, _)
matrix_entry_loop(st, a, b, n, i, j, mod) ==
    IF st[1] >= n THEN st[2]
    ELSE LET k       == st[1]
             product == u128_mulmod(a[(i * n) + k + 1], b[(k * n) + j + 1], mod)
         IN  matrix_entry_loop(<<k + 1, ((st[2] + product) % U64) % mod>>,
                               a, b, n, i, j, mod)

\* result[] after symmetrix_galois_matrix_mul(a, b, result, n): zeroed,
\* then accumulated entry by entry; result[] does not overlap a[] or b[].
symmetrix_galois_matrix_mul(engine, a, b, result, n) ==
    [x \in DOMAIN result |->
        IF x <= n * n
        THEN matrix_entry_loop(<<0, 0>>, a, b, n, (x - 1) \div n, (x - 1) % n,
                               engine.prime)
        ELSE result[x]]

-----------------------------------------------------------------------------
(* kernel/symmetrix-core.c: the tensor-folding allocator *)

\* L1_CACHE_BYTES and L2_CACHE_BYTES
L1_CACHE_BYTES == 64
L2_CACHE_BYTES == 256 * 1024

\* symmetrix_morton_encode_2d(x, y): bit i of x at position 2i, bit i of y
\* at position 2i + 1.
RECURSIVE symmetrix_morton_encode_2d(_, _)
symmetrix_morton_encode_2d(x, y) ==
    IF x = 0 /\ y = 0 THEN 0
    ELSE (x % 2) + (2 * (y % 2))
         + (4 * symmetrix_morton_encode_2d(x \div 2, y \div 2))

\* block->cache_level with the comparisons strict.
tensor_cache_level_strict(size) ==
    IF size < L1_CACHE_BYTES THEN 1
    ELSE IF size < L2_CACHE_BYTES THEN 2 ELSE 3

\* block->cache_level of symmetrix_tensor_alloc
tensor_cache_level(size) ==
    IF size <= L1_CACHE_BYTES THEN 1
    ELSE IF size <= L2_CACHE_BYTES THEN 2 ELSE 3

-----------------------------------------------------------------------------
(* kernel/symmetrix-core.c: resource stalks, the selector, the sampler *)

\* Number of possible CPUs of the modelled machine (at most
\* SYMMETRIX_MAX_CPUS); CPU ids are 0 .. MaxCpus - 1.
MaxCpus == 3

CpuIds == 0 .. (MaxCpus - 1)

\* SYMMETRIX_RESOURCE_MAX: the number of resource kinds; kind k of the code
\* is index k + 1 of the model's vectors.
SYMMETRIX_RESOURCE_MAX == 6

\* The loop over the resource kinds in symmetrix_select_cpu on
\* st = <<i, obstruction>>: the u64 obstruction of one stalk.
RECURSIVE obstruction_loop(_, _)
obstruction_loop(st, stalk) ==
    IF st[1] > SYMMETRIX_RESOURCE_MAX THEN st[2]
    ELSE LET i == st[1]
         IN  obstruction_loop(
                 <<i + 1,
                   IF stalk.allocated[i] > u64_mul(stalk.resources[i], 80) \div 100
                   THEN (st[2] + ((stalk.allocated[i] - stalk.resources[i]) % U64)) % U64
                   ELSE st[2]>>,
                 stalk)

stalk_obstruction(stalk) == obstruction_loop(<<1, 0>>, stalk)

\* for_each_online_cpu(cpu) in symmetrix_select_cpu on
\* st = <<cpu, best_cpu, min_obstruction>>: the online CPUs in ascending
\* order; returns best_cpu after the scan.
RECURSIVE select_scan(_, _, _)
select_scan(st, stalks, online) ==
    IF st[1] >= MaxCpus THEN st[2]
    ELSE IF st[1] \notin online THEN select_scan(<<st[1] + 1, st[2], st[3]>>, stalks, online)
    ELSE LET obstruction == stalk_obstruction(stalks[st[1]])
         IN  IF obstruction < st[3]
             THEN select_scan(<<st[1] + 1, st[1], obstruction>>, stalks, online)
             ELSE select_scan(<<st[1] + 1, st[2], st[3]>>, stalks, online)

\* symmetrix_select_cpu(p, prev_cpu) with min_obstruction starting at 0.
symmetrix_select_cpu_min0(enable, stalks, online, prev_cpu) ==
    IF ~enable THEN prev_cpu
    ELSE select_scan(<<0, prev_cpu, 0>>, stalks, online)

\* symmetrix_select_cpu(p, prev_cpu) without the test of
\* enable_sheaf_scheduler.
symmetrix_select_cpu_always(enable, stalks, online, prev_cpu) ==
    select_scan(<<0, prev_cpu, ULLONG_MAX>>, stalks, online)

\* symmetrix_select_cpu(p, prev_cpu); the task p is only logged.
symmetrix_select_cpu(enable, stalks, online, prev_cpu) ==
    IF ~enable THEN prev_cpu
    ELSE select_scan(<<0, prev_cpu, ULLONG_MAX>>, stalks, online)

\* The loop over the resource kinds in symmetrix_compute_h2_cohomology on
\* st = <<k, resource_diff>>, for the stalks si and sj.
RECURSIVE resource_diff_loop(_, _, _)
resource_diff_loop(st, si, sj) ==
    IF st[1] > SYMMETRIX_RESOURCE_MAX THEN st[2]
    ELSE LET k == st[1]
         IN  resource_diff_loop(
                 <<k + 1,
                   IF si.resources[k] > sj.resources[k]
                   THEN (st[2] + (si.resources[k] - sj.resources[k])) % U64
                   ELSE (st[2] + (sj.resources[k] - si.resources[k])) % U64>>,
                 si, sj)

\* The loops over i and j = i + 1 .. num_stalks - 1 on
\* st = <<i, j, obstruction_sum>>.
RECURSIVE h2_pair_loop(_, _, _)
h2_pair_loop(st, stalks, num_stalks) ==
    IF st[1] >= num_stalks THEN st[3]
    ELSE IF st[2] >= num_stalks
         THEN h2_pair_loop(<<st[1] + 1, st[1] + 2, st[3]>>, stalks, num_stalks)
         ELSE h2_pair_loop(
                  <<st[1], st[2] + 1,
                    (st[3] + resource_diff_loop(<<1, 0>>, stalks[st[1]], stalks[st[2]]))
                        % U64>>,
                  stalks, num_stalks)

\* symmetrix_compute_h2_cohomology(stalks, num_stalks)
symmetrix_compute_h2_cohomology(stalks, num_stalks) ==
    IF h2_pair_loop(<<0, 1, 0>>, stalks, num_stalks) = 0 THEN 0 ELSE 1

\* num_online_cpus()
num_online_cpus(online) == Cardinality(online)

-----------------------------------------------------------------------------
(* kernel/symmetrix-core.c: the status report and the module's life cycle *)

\* HZ: jiffies per second.  The model's tick is one second.
HZ == 1

\* The seconds of the sampler's ssleep.
SleepSeconds == 30

\* ENOMEM of the kernel's errno.
ENOMEM == 12

\* 1024^4 and 1024^5, the divisors of the storage lines of the report,
\* scaled with the word: 24 and 14 bits below the word width.
StorageTB == 2^(WordBits - 24)
StorageEB == 2^(WordBits - 14)

\* struct msi_performance_stats msi_stats = {0}
ZeroStats ==
    [reconstructions |-> 0, cache_hits |-> 0, cache_misses |-> 0,
     amplification_ops |-> 0, amplification_ratio |-> 0,
     effective_storage |-> 0, physical_storage |-> 0]

\* global_msi_engine == NULL (bound is FALSE), and the fields of a bound
\* engine that msi_get_performance_stats reads.
NullEngine ==
    [bound |-> FALSE, reconstructions |-> 0, cache_hits |-> 0, cache_misses |-> 0,
     amplification_ops |-> 0, amplification_ratio |-> 0, bulk_size |-> 0,
     boundary_size |-> 0]

\* *stats after msi_get_performance_stats(stats)
msi_get_performance_stats(engine, stats) ==
    IF ~engine.bound THEN stats
    ELSE [reconstructions     |-> engine.reconstructions,
          cache_hits          |-> engine.cache_hits,
          cache_misses        |-> engine.cache_misses,
          amplification_ops   |-> engine.amplification_ops,
          amplification_ratio |-> engine.amplification_ratio,
          effective_storage   |-> engine.bulk_size,
          physical_storage    |-> engine.boundary_size]

\* unsigned long age = (jiffies - computed_at) / HZ
proc_show_age(now, computed_at) == ((now - computed_at) % U64) \div HZ

\* symmetrix_proc_show polling and reporting the provider's counters
\* whether or not the provider is enabled.
symmetrix_proc_show_polling(sheaf, tensor, msi, containers, h2, now, engine) ==
    LET msi_stats == msi_get_performance_stats(engine, ZeroStats)
        total     == (msi_stats.cache_hits + msi_stats.cache_misses) % U64
        rate      == total > 0
    IN  [tensor_allocator   |-> tensor,
         sheaf_scheduler    |-> sheaf,
         msi                |-> msi,
         active_containers  |-> containers,
         dimension          |-> h2.dimension,
         valid              |-> h2.valid,
         age_printed        |-> h2.valid,
         age                |-> IF h2.valid THEN proc_show_age(now, h2.computed_at)
                                            ELSE 0,
         stats_polled       |-> TRUE,
         msi_printed        |-> msi,
         physical_tb        |-> msi_stats.physical_storage \div StorageTB,
         effective_eb       |-> msi_stats.effective_storage \div StorageEB,
         ratio              |-> msi_stats.amplification_ratio,
         reconstructions    |-> msi_stats.reconstructions,
         cache_hits         |-> msi_stats.cache_hits,
         cache_misses       |-> msi_stats.cache_misses,
         hit_rate_printed   |-> rate,
         hit_rate           |-> IF rate
                                THEN u64_mul(msi_stats.cache_hits, 100) \div total
                                ELSE 0,
         amplification_ops  |-> msi_stats.amplification_ops]

\* What symmetrix_proc_show prints; a line that is not printed has its
\* _printed field FALSE and its value 0.
symmetrix_proc_show(sheaf, tensor, msi, containers, h2, now, engine) ==
    LET msi_stats == IF msi THEN msi_get_performance_stats(engine, ZeroStats)
                            ELSE ZeroStats
        total     == (msi_stats.cache_hits + msi_stats.cache_misses) % U64
        rate      == msi /\ total > 0
    IN  [tensor_allocator   |-> tensor,
         sheaf_scheduler    |-> sheaf,
         msi                |-> msi,
         active_containers  |-> containers,
         dimension          |-> h2.dimension,
         valid              |-> h2.valid,
         age_printed        |-> h2.valid,
         age                |-> IF h2.valid THEN proc_show_age(now, h2.computed_at)
                                            ELSE 0,
         stats_polled       |-> msi,
         msi_printed        |-> msi,
         physical_tb        |-> msi_stats.physical_storage \div StorageTB,
         effective_eb       |-> msi_stats.effective_storage \div StorageEB,
         ratio              |-> msi_stats.amplification_ratio,
         reconstructions    |-> msi_stats.reconstructions,
         cache_hits         |-> msi_stats.cache_hits,
         cache_misses       |-> msi_stats.cache_misses,
         hit_rate_printed   |-> rate,
         hit_rate           |-> IF rate
                                THEN u64_mul(msi_stats.cache_hits, 100) \div total
                                ELSE 0,
         amplification_ops  |-> msi_stats.amplification_ops]

\* The report before any call.
NoReport ==
    symmetrix_proc_show(FALSE, FALSE, FALSE, 0,
                        [dimension |-> 0, computed_at |-> 0, valid |-> FALSE],
                        0, NullEngine)

-----------------------------------------------------------------------------
(* Specification SpecArith: one call of add, mul or inv, and mul(a, inv(a)) *)

\* Moduli of the operands: 1, small primes, a prime above the square root
\* of the word range (the code's m > 2^32), primes just below half the word
\* range (the code's 2^63), and composite moduli up to the full width.
ArithModuli ==
    {1, 2, 3, 7, 11, 8191, 65537, 524287, 67108859, 134217689,
     (U64 \div 2) - 1, U64 - 3, U64 - 1}

\* Values of the operands of modulus m: around 0, around m, around half
\* the word range (the sign bit of an s64) and at the top of the range.
ArithValues(m) ==
    {0, 1, 2, 3, m - 1, m, m + 1, 2 * m + 1, 12345, 67890,
     (U64 \div 2) - 1, U64 \div 2, (U64 \div 2) + 1,
     U64 - 3, U64 - 2, U64 - 1} \cap (0 .. (U64 - 1))

\* A modulus different from m, for the mismatched calls.
OtherModulus(m) == IF m = 5 THEN 7 ELSE 5

InitArithVars ==
    /\ \E m \in ArithModuli :
          /\ \E v \in ArithValues(m) : g_a = Element(v, m)
          /\ \E v \in ArithValues(m), mb \in {m, OtherModulus(m)} :
                g_b = Element(v, mb)
    /\ g_op = "none"
    /\ g_res = Element(0, 0)

IdleArithVars ==
    /\ g_a = Element(0, 1)
    /\ g_b = Element(0, 1)
    /\ g_op = "none"
    /\ g_res = Element(0, 0)

\* result = symmetrix_galois_add(a, b)
GaloisAdd ==
    /\ g_op' = "add"
    /\ g_res' = symmetrix_galois_add(g_a, g_b)
    /\ UNCHANGED <<g_a, g_b>>

\* result = symmetrix_galois_mul(a, b)
GaloisMul ==
    /\ g_op' = "mul"
    /\ g_res' = symmetrix_galois_mul(g_a, g_b)
    /\ UNCHANGED <<g_a, g_b>>

\* result = symmetrix_galois_inv(a)
GaloisInv ==
    /\ g_op' = "inv"
    /\ g_res' = symmetrix_galois_inv(g_a)
    /\ UNCHANGED <<g_a, g_b>>

\* result = symmetrix_galois_mul(a, result), result being inv(a)
GaloisMulInv ==
    /\ g_op = "inv"
    /\ g_op' = "mul_inv"
    /\ g_res' = symmetrix_galois_mul(g_a, g_res)
    /\ UNCHANGED <<g_a, g_b>>

-----------------------------------------------------------------------------
(* Specification SpecPow: one call of symmetrix_galois_pow *)

PowBases == {0, 1, 2, 3, 12345, U64 \div 2, U64 - 1}

PowExps == {0, 1, 2, 3, 17, 255}

\* 33554393 is the largest prime below 2^25, three bits below the word
\* width as 2^61 - 1 is below 64.
PowModuli == {1, 2, 3, 7, 8191, 524287, 33554393, U64 - 1}

\* The calls with the exponent 65537.
PowBigExpCalls ==
    {<<2, 65537, 8191>>, <<3, 65537, 7>>, <<12345, 65537, 8191>>,
     <<U64 - 1, 65537, 7>>, <<3, 65537, 33554393>>}

InitPowVars ==
    /\ \E c \in (PowBases \X PowExps \X PowModuli) \cup PowBigExpCalls :
          /\ pow_base = c[1]
          /\ pow_exp = c[2]
          /\ pow_mod = c[3]
    /\ pow_done = FALSE
    /\ pow_result = 0

IdlePowVars ==
    /\ pow_base = 0
    /\ pow_exp = 0
    /\ pow_mod = 1
    /\ pow_done = FALSE
    /\ pow_result = 0

\* pow_result = symmetrix_galois_pow(pow_base, pow_exp, pow_mod)
GaloisPow ==
    /\ ~pow_done
    /\ pow_done' = TRUE
    /\ pow_result' = symmetrix_galois_pow(pow_base, pow_exp, pow_mod)
    /\ UNCHANGED <<pow_base, pow_exp, pow_mod>>

-----------------------------------------------------------------------------
(* Specification SpecCrt: symmetrix_crt_decompose, then                     *)
(* symmetrix_crt_reconstruct on the residues it wrote                       *)

\* Values to decompose: around 0, around the first prime, around the
\* product of the first two primes, and up to the top of the word range.
CrtValues ==
    {0, 1, 2, 8190, 8191, 8192, 12345678, (8191 * 8179) - 1, 8191 * 8179,
     U64 \div 2, U64 - 1}

\* num_primes of the calls: the table sizes 1..8, and 0, 9 and -1.
CrtCounts == (-1) .. (SYMMETRIX_NUM_CRT_PRIMES + 1)

InitCrtVars ==
    /\ crt_value \in CrtValues
    /\ crt_k \in CrtCounts
    /\ crt_pc = "start"
    /\ crt_residues = [i \in 1 .. SYMMETRIX_NUM_CRT_PRIMES |-> 0]
    /\ crt_dec_rc = 0
    /\ crt_rec_rc = 0
    /\ crt_out = 0

IdleCrtVars ==
    /\ crt_value = 0
    /\ crt_k = 0
    /\ crt_pc = "start"
    /\ crt_residues = [i \in 1 .. SYMMETRIX_NUM_CRT_PRIMES |-> 0]
    /\ crt_dec_rc = 0
    /\ crt_rec_rc = 0
    /\ crt_out = 0

\* crt_dec_rc = symmetrix_crt_decompose(crt_value, crt_residues, crt_k)
CrtDecompose ==
    /\ crt_pc = "start"
    /\ crt_pc' = "decomposed"
    /\ IF ToSizeT(crt_k) > SYMMETRIX_NUM_CRT_PRIMES
       THEN /\ crt_dec_rc' = 0 - EINVAL
            /\ UNCHANGED crt_residues
       ELSE /\ crt_dec_rc' = 0
            /\ crt_residues' =
                 crt_decompose_residues(galois_engine, crt_value, crt_residues, crt_k)
    /\ UNCHANGED <<crt_value, crt_k, crt_rec_rc, crt_out>>

\* crt_rec_rc = symmetrix_crt_reconstruct(crt_residues, crt_k, &crt_out)
CrtReconstruct ==
    /\ crt_pc = "decomposed"
    /\ crt_pc' = "reconstructed"
    /\ IF ToSizeT(crt_k) > SYMMETRIX_NUM_CRT_PRIMES
       THEN /\ crt_rec_rc' = 0 - EINVAL
            /\ UNCHANGED crt_out
       ELSE /\ crt_rec_rc' = 0
            /\ crt_out' = crt_reconstruct_value(galois_engine, crt_residues, crt_k)
    /\ UNCHANGED <<crt_value, crt_k, crt_residues, crt_dec_rc>>

-----------------------------------------------------------------------------
(* Specification Spec: symmetrix_select_cpu and the sampler's publication   *)
(* over stalks of arbitrary content                                         *)

\* Resource vectors of the stalks.
ZeroVector == <<0, 0, 0, 0, 0, 0>>
TestCapacity == <<1000, 1024000, 100, 1000, 10240, 1000>>
TestAllocated == <<900, 900000, 80, 800, 8000, 800>>

\* resources[] as symmetrix_init sets it (CPU, MEMORY, STORAGE, FPGA, IO,
\* NETWORK); allocated[] is zeroed by the memset.
InitCapacity == <<1000, 1024 * 1024, 10 * 1024, 0, 100, 1000>>

Stalk(res, alloc) == [resources |-> res, allocated |-> alloc]

\* The contents a stalk starts with: idle; the loaded stalk of the spec's
\* example; one unit below capacity; above capacity; full-width values;
\* the capacities of symmetrix_init.
StalkContents ==
    {Stalk(TestCapacity, ZeroVector),
     Stalk(TestCapacity, TestAllocated),
     Stalk(TestCapacity, <<999, 0, 0, 0, 0, 0>>),
     Stalk(TestCapacity, <<1100, 0, 0, 0, 0, 0>>),
     Stalk(<<ULLONG_MAX, 0, 0, 0, 0, 0>>, <<ULLONG_MAX, 0, 0, 0, 0, 0>>),
     Stalk(InitCapacity, ZeroVector)}

InitStalkVars ==
    /\ cpu_stalks \in [CpuIds -> StalkContents]
    /\ cpu_online \in (SUBSET CpuIds) \ {{}}
    /\ enable_sheaf_scheduler \in BOOLEAN
    /\ jiffies = 0
    /\ h2_cohomology = [dimension |-> 0, computed_at |-> 0, valid |-> FALSE]
    /\ sel_done = FALSE
    /\ sel_prev = 0
    /\ sel_result = 0

IdleStalkVars ==
    /\ cpu_stalks = [c \in CpuIds |-> Stalk(InitCapacity, ZeroVector)]
    /\ cpu_online = CpuIds
    /\ enable_sheaf_scheduler = TRUE
    /\ jiffies = 0
    /\ h2_cohomology = [dimension |-> 0, computed_at |-> 0, valid |-> FALSE]
    /\ sel_done = FALSE
    /\ sel_prev = 0
    /\ sel_result = 0

\* symmetrix_select_cpu(p, prev_cpu) that also charges the chosen stalk
\* with one unit of the first resource kind.
SelectCpuCharging(prev_cpu) ==
    /\ ~sel_done
    /\ sel_done' = TRUE
    /\ sel_prev' = prev_cpu
    /\ sel_result' = symmetrix_select_cpu(enable_sheaf_scheduler, cpu_stalks,
                                          cpu_online, prev_cpu)
    /\ cpu_stalks' =
          [cpu_stalks EXCEPT ![sel_result'].allocated[1] = (@ + 1) % U64]
    /\ UNCHANGED <<cpu_online, enable_sheaf_scheduler, jiffies, h2_cohomology>>

\* sel_result = symmetrix_select_cpu(p, prev_cpu)
SelectCpu(prev_cpu) ==
    /\ ~sel_done
    /\ sel_done' = TRUE
    /\ sel_prev' = prev_cpu
    /\ sel_result' = symmetrix_select_cpu(enable_sheaf_scheduler, cpu_stalks,
                                          cpu_online, prev_cpu)
    /\ UNCHANGED <<cpu_stalks, cpu_online, enable_sheaf_scheduler, jiffies,
                   h2_cohomology>>

\* The publication of cohomology_thread_fn without the store of
\* computed_at.
SamplerPublishStaleStamp ==
    /\ h2_cohomology' =
          [dimension   |-> symmetrix_compute_h2_cohomology(
                               cpu_stalks, num_online_cpus(cpu_online)),
           computed_at |-> h2_cohomology.computed_at,
           valid       |-> TRUE]
    /\ UNCHANGED <<cpu_stalks, cpu_online, enable_sheaf_scheduler, jiffies,
                   sel_done, sel_prev, sel_result>>

\* One iteration of cohomology_thread_fn up to the sleep: compute and
\* publish dimension, computed_at and valid.
SamplerPublish ==
    /\ h2_cohomology' =
          [dimension   |-> symmetrix_compute_h2_cohomology(
                               cpu_stalks, num_online_cpus(cpu_online)),
           computed_at |-> jiffies,
           valid       |-> TRUE]
    /\ UNCHANGED <<cpu_stalks, cpu_online, enable_sheaf_scheduler, jiffies,
                   sel_done, sel_prev, sel_result>>

-----------------------------------------------------------------------------
(* Specification SpecMat: one call of symmetrix_galois_matrix_mul on an     *)
(* engine initialised with the prime p                                      *)

\* The primes the engine is initialised with: small ones, the configured
\* one, and moduli up to the full word width.
MatPrimes == {2, 7, SYMMETRIX_MERSENNE_61, (U64 \div 2) - 1, U64 - 3}

\* Entries of the matrices, all below p.
MatEntries(p) == {0, 1, p - 1}

MatDims == {1, 2}

InitMatVars ==
    /\ \E p \in MatPrimes :
          /\ galois_engine = symmetrix_galois_init(p)
          /\ \E n \in MatDims :
                /\ mat_n = n
                /\ mat_a \in [1 .. (n * n) -> MatEntries(p)]
                /\ mat_b \in [1 .. (n * n) -> MatEntries(p)]
                /\ mat_r = [x \in 1 .. (n * n) |-> 1]
    /\ mat_done = FALSE
    /\ mat_rc = 0

IdleMatVars ==
    /\ mat_n = 0
    /\ mat_a = << >>
    /\ mat_b = << >>
    /\ mat_r = << >>
    /\ mat_done = FALSE
    /\ mat_rc = 0

\* mat_rc = symmetrix_galois_matrix_mul(mat_a, mat_b, mat_r, mat_n)
GaloisMatrixMul ==
    /\ ~mat_done
    /\ mat_done' = TRUE
    /\ mat_rc' = 0
    /\ mat_r' = symmetrix_galois_matrix_mul(galois_engine, mat_a, mat_b, mat_r, mat_n)
    /\ UNCHANGED <<mat_n, mat_a, mat_b>>

-----------------------------------------------------------------------------
(* Specification SpecTensor: symmetrix_tensor_alloc, then                   *)
(* symmetrix_tensor_free of what it returned                                *)

\* Sizes of the requests: around the two thresholds, and the
\* specification's examples 32, 1000 and 1000000.
TensorSizes ==
    {0, 1, 32, 63, 64, 65, 1000, 65536, 262143, 262144, 262145, 1000000}

\* The pr_debug line of a call that did not reach it.
NoLog == [size |-> 0, morton |-> 0, cache_level |-> 0]

\* The allocations live before the call: none, or one made by other code.
InitTensorVars ==
    /\ enable_tensor_allocator \in BOOLEAN
    /\ kmalloc_live \in {{}, {"other"}}
    /\ ta_size \in TensorSizes
    /\ ta_pc = "start"
    /\ ta_ptr = "NULL"
    /\ ta_log = NoLog

IdleTensorVars ==
    /\ enable_tensor_allocator = TRUE
    /\ kmalloc_live = {}
    /\ ta_size = 0
    /\ ta_pc = "start"
    /\ ta_ptr = "NULL"
    /\ ta_log = NoLog

\* symmetrix_tensor_alloc without the kfree of the descriptor on the path
\* that returns the memory.
TensorAllocKeepsBlock(block_ok, data_ok) ==
    /\ ta_pc = "start"
    /\ ta_pc' = "allocated"
    /\ IF ~enable_tensor_allocator
       THEN /\ ta_ptr' = IF data_ok THEN "data" ELSE "NULL"
            /\ kmalloc_live' = IF data_ok THEN kmalloc_live \cup {"data"}
                                          ELSE kmalloc_live
            /\ ta_log' = NoLog
       ELSE IF ~block_ok
       THEN /\ ta_ptr' = "NULL"
            /\ UNCHANGED <<kmalloc_live, ta_log>>
       ELSE IF ~data_ok
       THEN /\ ta_ptr' = "NULL"
            /\ kmalloc_live' = (kmalloc_live \cup {"block"}) \ {"block"}
            /\ ta_log' = NoLog
       ELSE /\ ta_ptr' = "data"
            /\ kmalloc_live' = kmalloc_live \cup {"block", "data"}
            /\ ta_log' =
                  [size        |-> ta_size,
                   morton      |-> symmetrix_morton_encode_2d(
                                       ta_size % 65536, (ta_size \div 65536) % 65536),
                   cache_level |-> tensor_cache_level(ta_size)]
    /\ UNCHANGED <<enable_tensor_allocator, ta_size>>

\* ta_ptr = symmetrix_tensor_alloc(ta_size, flags); block_ok and data_ok
\* tell whether the kmalloc of the descriptor and of the memory succeed.
\* The descriptor is released before the return on every path.
TensorAlloc(block_ok, data_ok) ==
    /\ ta_pc = "start"
    /\ ta_pc' = "allocated"
    /\ IF ~enable_tensor_allocator
       THEN /\ ta_ptr' = IF data_ok THEN "data" ELSE "NULL"
            /\ kmalloc_live' = IF data_ok THEN kmalloc_live \cup {"data"}
                                          ELSE kmalloc_live
            /\ ta_log' = NoLog
       ELSE IF ~block_ok
       THEN /\ ta_ptr' = "NULL"
            /\ UNCHANGED <<kmalloc_live, ta_log>>
       ELSE IF ~data_ok
       THEN /\ ta_ptr' = "NULL"
            /\ kmalloc_live' = (kmalloc_live \cup {"block"}) \ {"block"}
            /\ ta_log' = NoLog
       ELSE /\ ta_ptr' = "data"
            /\ kmalloc_live' = (kmalloc_live \cup {"block", "data"}) \ {"block"}
            /\ ta_log' =
                  [size        |-> ta_size,
                   morton      |-> symmetrix_morton_encode_2d(
                                       ta_size % 65536, (ta_size \div 65536) % 65536),
                   cache_level |-> tensor_cache_level(ta_size)]
    /\ UNCHANGED <<enable_tensor_allocator, ta_size>>

\* symmetrix_tensor_free(ta_ptr): kfree in both branches; kfree(NULL) does
\* nothing.
TensorFree ==
    /\ ta_pc = "allocated"
    /\ ta_pc' = "freed"
    /\ kmalloc_live' = kmalloc_live \ {ta_ptr}
    /\ UNCHANGED <<enable_tensor_allocator, ta_size, ta_ptr, ta_log>>

-----------------------------------------------------------------------------
(* Specification SpecRead: symmetrix_select_cpu and symmetrix_proc_show     *)
(* called in arbitrary states of the registry                               *)

\* A bound provider engine with counters.
BoundEngine ==
    [bound |-> TRUE, reconstructions |-> 5, cache_hits |-> 3, cache_misses |-> 1,
     amplification_ops |-> 4, amplification_ratio |-> 125000,
     bulk_size |-> ULLONG_MAX, boundary_size |-> 8 * StorageTB]

ReadStalkContents ==
    {Stalk(TestCapacity, ZeroVector), Stalk(TestCapacity, TestAllocated)}

\* The locks as symmetrix_init leaves them.
InitLockVars ==
    /\ global_lock = "unlocked"
    /\ stalk_locks = [c \in CpuIds |-> "unlocked"]
    /\ active_containers = 0

\* The locks free, or held by a caller that is mutating stalk 0 and the
\* aggregate counters.
InitReadLockVars ==
    \/ InitLockVars
    \/ /\ global_lock = "locked"
       /\ stalk_locks = [c \in CpuIds |-> IF c = 0 THEN "locked" ELSE "unlocked"]
       /\ active_containers = 2

InitReadStalkVars ==
    /\ cpu_stalks \in [CpuIds -> ReadStalkContents]
    /\ cpu_online \in (SUBSET CpuIds) \ {{}}
    /\ enable_sheaf_scheduler \in BOOLEAN
    /\ jiffies \in {0, 7}
    /\ h2_cohomology \in
          {[dimension |-> 0, computed_at |-> 0, valid |-> FALSE],
           [dimension |-> 0, computed_at |-> 5, valid |-> TRUE],
           [dimension |-> 1, computed_at |-> ULLONG_MAX - 5, valid |-> TRUE]}
    /\ sel_done = FALSE
    /\ sel_prev = 0
    /\ sel_result = 0

InitReportVars ==
    /\ \E c \in {<<FALSE, NullEngine>>, <<FALSE, BoundEngine>>,
                 <<TRUE, NullEngine>>, <<TRUE, BoundEngine>>} :
          /\ enable_msi = c[1]
          /\ global_msi_engine = c[2]
    /\ rep_done = FALSE
    /\ proc_report = NoReport

IdleReportVars ==
    /\ enable_msi = TRUE
    /\ global_msi_engine = NullEngine
    /\ rep_done = FALSE
    /\ proc_report = NoReport

\* symmetrix_proc_show(m, v): the read of /proc/symmetrix/status
ProcShow ==
    /\ ~rep_done
    /\ rep_done' = TRUE
    /\ proc_report' =
          symmetrix_proc_show(enable_sheaf_scheduler, enable_tensor_allocator,
                              enable_msi, active_containers, h2_cohomology,
                              jiffies, global_msi_engine)
    /\ UNCHANGED <<enable_msi, global_msi_engine>>

-----------------------------------------------------------------------------
(* Specification SpecLife: symmetrix_init, the sampler thread, the status   *)
(* report and symmetrix_exit, with time                                     *)

\* The ticks a runnable step of the module may wait for the CPU: the bound
\* on the time of one stretch of work between two waits.
MaxStepTicks == 2

\* The value of jiffies at which the model stops the clock.
TimeHorizon == 40

\* Before the module is loaded: the static storage is zero.
InitLifeVars ==
    /\ init_pc = "unloaded"
    /\ init_rc = 0
    /\ symmetrix_proc_dir = "NULL"
    /\ proc_status = FALSE
    /\ cohomology_thread = "NULL"
    /\ thr_pc = "none"
    /\ should_stop = FALSE
    /\ sleep_left = 0
    /\ exit_pc = "idle"
    /\ run_ticks = 0
    /\ pubs_after_stop = 0

InitLifeStalkVars ==
    /\ cpu_stalks = [c \in CpuIds |-> Stalk(ZeroVector, ZeroVector)]
    /\ cpu_online = CpuIds
    /\ enable_sheaf_scheduler = TRUE
    /\ jiffies \in {0, ULLONG_MAX - 34}
    /\ h2_cohomology = [dimension |-> 0, computed_at |-> 0, valid |-> FALSE]
    /\ sel_done = FALSE
    /\ sel_prev = 0
    /\ sel_result = 0

\* proc_remove(symmetrix_proc_dir): the directory and the entries below it.
proc_remove ==
    /\ symmetrix_proc_dir' = "removed"
    /\ proc_status' = FALSE

\* symmetrix_init up to proc_mkdir: the memset of symmetrix_global, the
\* locks, the stalks' capacities, and the creation of the directory.
SymmetrixInitMkdir(ok) ==
    /\ init_pc = "unloaded"
    /\ h2_cohomology' = [dimension |-> 0, computed_at |-> 0, valid |-> FALSE]
    /\ cpu_stalks' = [c \in CpuIds |-> Stalk(InitCapacity, ZeroVector)]
    /\ global_lock' = "unlocked"
    /\ stalk_locks' = [c \in CpuIds |-> "unlocked"]
    /\ active_containers' = 0
    /\ IF ok
       THEN /\ symmetrix_proc_dir' = "registered"
            /\ init_pc' = "create"
            /\ UNCHANGED init_rc
       ELSE /\ init_pc' = "failed"
            /\ init_rc' = 0 - ENOMEM
            /\ UNCHANGED symmetrix_proc_dir
    /\ UNCHANGED <<proc_status, cohomology_thread, thr_pc, should_stop, sleep_left,
                   exit_pc, run_ticks>>
    /\ UNCHANGED <<cpu_online, enable_sheaf_scheduler, jiffies, sel_done, sel_prev,
                   sel_result>>

\* symmetrix_init: proc_create("status") and its failure path.
SymmetrixInitCreate(ok) ==
    /\ init_pc = "create"
    /\ IF ok
       THEN /\ proc_status' = TRUE
            /\ init_pc' = "kthread"
            /\ UNCHANGED <<init_rc, symmetrix_proc_dir>>
       ELSE /\ proc_remove
            /\ init_pc' = "failed"
            /\ init_rc' = 0 - ENOMEM
    /\ UNCHANGED <<cohomology_thread, thr_pc, should_stop, sleep_left, exit_pc,
                   run_ticks>>
    /\ UNCHANGED <<svars, kvars>>

\* symmetrix_init: kthread_run failing without the proc_remove.
SymmetrixInitKthreadNoUnwind(ok) ==
    /\ init_pc = "kthread"
    /\ IF ok
       THEN /\ cohomology_thread' = "task"
            /\ thr_pc' = "created"
            /\ init_pc' = "loaded"
            /\ init_rc' = 0
       ELSE /\ cohomology_thread' = "ERR"
            /\ init_pc' = "failed"
            /\ init_rc' = 0 - ENOMEM
            /\ UNCHANGED thr_pc
    /\ UNCHANGED <<symmetrix_proc_dir, proc_status>>
    /\ UNCHANGED <<should_stop, sleep_left, exit_pc, run_ticks>>
    /\ UNCHANGED <<svars, kvars>>

\* symmetrix_init: kthread_run, its failure path (PTR_ERR of the thread,
\* here -ENOMEM), and the return of 0.
SymmetrixInitKthread(ok) ==
    /\ init_pc = "kthread"
    /\ IF ok
       THEN /\ cohomology_thread' = "task"
            /\ thr_pc' = "created"
            /\ init_pc' = "loaded"
            /\ init_rc' = 0
            /\ UNCHANGED <<symmetrix_proc_dir, proc_status>>
       ELSE /\ cohomology_thread' = "ERR"
            /\ proc_remove
            /\ init_pc' = "failed"
            /\ init_rc' = 0 - ENOMEM
            /\ UNCHANGED thr_pc
    /\ UNCHANGED <<should_stop, sleep_left, exit_pc, run_ticks>>
    /\ UNCHANGED <<svars, kvars>>

\* The new thread is scheduled for the first time: kthread() calls
\* cohomology_thread_fn unless the stop was requested before.
ThreadStart ==
    /\ thr_pc = "created"
    /\ thr_pc' = IF should_stop THEN "exited" ELSE "check"
    /\ UNCHANGED <<init_pc, init_rc, symmetrix_proc_dir, proc_status,
                   cohomology_thread, should_stop, sleep_left, exit_pc, run_ticks>>
    /\ UNCHANGED <<svars, kvars>>

\* The loop of the sampler without the test of the stop request.
SamplerCheckIgnoresStop ==
    /\ thr_pc = "check"
    /\ thr_pc' = "work"
    /\ UNCHANGED <<init_pc, init_rc, symmetrix_proc_dir, proc_status,
                   cohomology_thread, should_stop, sleep_left, exit_pc, run_ticks>>
    /\ UNCHANGED <<svars, kvars>>

\* while (!kthread_should_stop()): the test at the top of the loop, and
\* the return 0 when it fails.
SamplerCheck ==
    /\ thr_pc = "check"
    /\ thr_pc' = IF should_stop THEN "exited" ELSE "work"
    /\ UNCHANGED <<init_pc, init_rc, symmetrix_proc_dir, proc_status,
                   cohomology_thread, should_stop, sleep_left, exit_pc, run_ticks>>
    /\ UNCHANGED <<svars, kvars>>

\* The largest number of publications after the stop request that is
\* counted.
MaxCountedPubs == 2

\* The publications counted since the stop request, after one more
\* publication.
count_publication(n, stopping) ==
    IF stopping /\ n < MaxCountedPubs THEN n + 1 ELSE n

\* The body of the loop with a sleep one tick short of 30 seconds.
SamplerWorkShortSleep ==
    /\ thr_pc = "work"
    /\ SamplerPublish
    /\ thr_pc' = "sleep"
    /\ sleep_left' = (SleepSeconds * HZ) - 1
    /\ pubs_after_stop' = count_publication(pubs_after_stop, should_stop)
    /\ UNCHANGED <<init_pc, init_rc, symmetrix_proc_dir, proc_status,
                   cohomology_thread, should_stop, exit_pc, run_ticks>>
    /\ UNCHANGED kvars

\* The body of the loop up to the call of ssleep(30).
SamplerWork ==
    /\ thr_pc = "work"
    /\ SamplerPublish
    /\ thr_pc' = "sleep"
    /\ sleep_left' = SleepSeconds * HZ
    /\ pubs_after_stop' = count_publication(pubs_after_stop, should_stop)
    /\ UNCHANGED <<init_pc, init_rc, symmetrix_proc_dir, proc_status,
                   cohomology_thread, should_stop, exit_pc, run_ticks>>
    /\ UNCHANGED kvars

\* The body of the loop with the dimension left open: the steps of
\* SamplerWork are among its steps, and it is possible exactly when
\* SamplerWork is.
SamplerWorkSome ==
    /\ thr_pc = "work"
    /\ \E d \in {0, 1} :
          h2_cohomology' = [dimension |-> d, computed_at |-> jiffies, valid |-> TRUE]
    /\ thr_pc' = "sleep"
    /\ sleep_left' = SleepSeconds * HZ
    /\ pubs_after_stop' = count_publication(pubs_after_stop, should_stop)
    /\ UNCHANGED <<init_pc, init_rc, symmetrix_proc_dir, proc_status,
                   cohomology_thread, should_stop, exit_pc, run_ticks>>
    /\ UNCHANGED <<cpu_stalks, cpu_online, enable_sheaf_scheduler, jiffies,
                   sel_done, sel_prev, sel_result>>
    /\ UNCHANGED kvars

\* ssleep(30) returning early when the stop has been requested.
SamplerWakeInterruptible ==
    /\ thr_pc = "sleep"
    /\ sleep_left = 0 \/ should_stop
    /\ thr_pc' = "check"
    /\ UNCHANGED <<init_pc, init_rc, symmetrix_proc_dir, proc_status,
                   cohomology_thread, should_stop, sleep_left, exit_pc, run_ticks>>
    /\ UNCHANGED <<svars, kvars>>

\* ssleep(30) returns: the sleep is uninterruptible and ends when its time
\* has passed.
SamplerWake ==
    /\ thr_pc = "sleep"
    /\ sleep_left = 0
    /\ thr_pc' = "check"
    /\ UNCHANGED <<init_pc, init_rc, symmetrix_proc_dir, proc_status,
                   cohomology_thread, should_stop, sleep_left, exit_pc, run_ticks>>
    /\ UNCHANGED <<svars, kvars>>

\* symmetrix_exit: kthread_stop(cohomology_thread) sets the stop request
\* and waits for the thread.
SymmetrixExitStop ==
    /\ init_pc = "loaded"
    /\ exit_pc = "idle"
    /\ IF cohomology_thread # "NULL"
       THEN /\ should_stop' = TRUE
            /\ exit_pc' = "stopping"
       ELSE /\ exit_pc' = "joined"
            /\ UNCHANGED should_stop
    /\ UNCHANGED <<init_pc, init_rc, symmetrix_proc_dir, proc_status,
                   cohomology_thread, thr_pc, sleep_left, run_ticks>>
    /\ UNCHANGED <<svars, kvars>>

\* kthread_stop returning without waiting for the thread.
SymmetrixExitJoinNoWait ==
    /\ exit_pc = "stopping"
    /\ exit_pc' = "joined"
    /\ UNCHANGED <<init_pc, init_rc, symmetrix_proc_dir, proc_status,
                   cohomology_thread, thr_pc, should_stop, sleep_left, run_ticks>>
    /\ UNCHANGED <<svars, kvars>>

\* kthread_stop returns: the thread has exited.
SymmetrixExitJoin ==
    /\ exit_pc = "stopping"
    /\ thr_pc = "exited"
    /\ exit_pc' = "joined"
    /\ UNCHANGED <<init_pc, init_rc, symmetrix_proc_dir, proc_status,
                   cohomology_thread, thr_pc, should_stop, sleep_left, run_ticks>>
    /\ UNCHANGED <<svars, kvars>>

\* symmetrix_exit: proc_remove(symmetrix_proc_dir) and the return.
SymmetrixExitRemove ==
    /\ exit_pc = "joined"
    /\ proc_remove
    /\ exit_pc' = "returned"
    /\ UNCHANGED <<init_pc, init_rc, cohomology_thread, thr_pc, should_stop,
                   sleep_left, run_ticks>>
    /\ UNCHANGED <<svars, kvars>>

\* A step of the module's code is waiting for the CPU: the loading, the
\* sampler outside its sleep (or with its sleep over), symmetrix_exit after
\* the thread has exited.
Runnable ==
    \/ init_pc \in {"create", "kthread"}
    \/ thr_pc \in {"created", "check", "work"}
    \/ thr_pc = "sleep" /\ sleep_left = 0
    \/ exit_pc = "stopping" /\ thr_pc = "exited"
    \/ exit_pc = "joined"

\* One tick of the clock, from the loading of the module on: jiffies
\* advances (wrapping), a running sleep gets shorter, and a runnable step
\* waits no longer than MaxStepTicks.
Tick ==
    /\ init_pc # "unloaded"
    /\ jiffies # TimeHorizon
    /\ Runnable => run_ticks < MaxStepTicks
    /\ jiffies' = (jiffies + 1) % U64
    /\ sleep_left' = IF thr_pc = "sleep" /\ sleep_left > 0 THEN sleep_left - 1
                                                             ELSE sleep_left
    /\ run_ticks' = IF Runnable THEN run_ticks + 1 ELSE 0
    /\ UNCHANGED <<init_pc, init_rc, symmetrix_proc_dir, proc_status,
                   cohomology_thread, thr_pc, should_stop, exit_pc>>
    /\ UNCHANGED <<cpu_stalks, cpu_online, enable_sheaf_scheduler, h2_cohomology,
                   sel_done, sel_prev, sel_result>>
    /\ UNCHANGED kvars

\* A tick after the model has stopped counting jiffies: time still passes
\* for a running sleep.
LateTick ==
    /\ jiffies = TimeHorizon
    /\ thr_pc = "sleep"
    /\ sleep_left > 0
    /\ sleep_left' = sleep_left - 1
    /\ UNCHANGED <<init_pc, init_rc, symmetrix_proc_dir, proc_status,
                   cohomology_thread, thr_pc, should_stop, exit_pc, run_ticks>>
    /\ UNCHANGED <<svars, kvars>>

\* A read of /proc/symmetrix/status while the entry is registered.
StatusRead ==
    /\ proc_status
    /\ ProcShow
    /\ UNCHANGED <<svars, kvars, lvars>>

-----------------------------------------------------------------------------
(* Specification SpecEngine: calls of symmetrix_galois_init and             *)
(* symmetrix_galois_cleanup, with the allocator's outcomes                  *)

\* The number of engine calls of one behaviour.
MaxEngineCalls == 3

\* The primes symmetrix_galois_init is called with.
EnginePrimes == {SYMMETRIX_MERSENNE_61, 8191}

\* galois_engine.cache_size = 1024
PowerCacheSlots == 1024

\* The tables kmalloc can return in one behaviour (0 is NULL).
EngineTables == 1 .. (2 * MaxEngineCalls)

\* static struct galois_engine galois_engine: zero, as the static storage
\* starts and as the memset of symmetrix_galois_cleanup leaves it.
ZeroEngine == [prime |-> 0, num_crt_primes |-> 0, crt_primes |-> << >>]

\* The record of an engine call and its arguments.
EngineCall(name, prime, crt_ok, cache_ok) ==
    [name |-> name, prime |-> prime, crt_ok |-> crt_ok, cache_ok |-> cache_ok]

\* kfree(ptr): the live tables afterwards; kfree(NULL) does nothing.
kfree(ptr, live) == live \ {ptr}

\* kfree(ptr): the count of the releases of each table afterwards.
kfree_count(ptr, released) ==
    IF ptr = 0 THEN released ELSE [released EXCEPT ![ptr] = @ + 1]

\* The power cache as the loop of symmetrix_galois_init fills it.
power_cache_fill(prime) == [i \in 0 .. (PowerCacheSlots - 1) |-> Element(0, prime)]

\* The engine's bookkeeping where no engine call is made: the two tables
\* of an initialised engine; the slots of the power cache, which no
\* operation reads, are not tracked there.
IdleEngineVars ==
    /\ crt_primes_ptr = 1
    /\ power_cache_ptr = 2
    /\ cache_size = PowerCacheSlots
    /\ power_cache = << >>
    /\ eng_live = {1, 2}
    /\ eng_released = [t \in EngineTables |-> 0]
    /\ eng_next = 3
    /\ eng_op = EngineCall("none", 0, TRUE, TRUE)
    /\ eng_rc = 0
    /\ eng_allocated = {}
    /\ eng_calls = 0

\* Before the first engine call: the static storage is zero.
InitEngineVars ==
    /\ galois_engine = ZeroEngine
    /\ crt_primes_ptr = 0
    /\ power_cache_ptr = 0
    /\ cache_size = 0
    /\ power_cache = << >>
    /\ eng_live = {}
    /\ eng_released = [t \in EngineTables |-> 0]
    /\ eng_next = 1
    /\ eng_op = EngineCall("none", 0, TRUE, TRUE)
    /\ eng_rc = 0
    /\ eng_allocated = {}
    /\ eng_calls = 0

\* symmetrix_galois_init without the kfree of the CRT table when the
\* allocation of the power cache fails.
GaloisInitLeaky(prime, crt_ok, cache_ok) ==
    /\ eng_calls < MaxEngineCalls
    /\ eng_calls' = eng_calls + 1
    /\ eng_op' = EngineCall("init", prime, crt_ok, cache_ok)
    /\ IF ~crt_ok
       THEN /\ galois_engine' = [prime |-> prime,
                                 num_crt_primes |-> SYMMETRIX_NUM_CRT_PRIMES,
                                 crt_primes |-> << >>]
            /\ crt_primes_ptr' = 0
            /\ eng_rc' = 0 - ENOMEM
            /\ eng_allocated' = {}
            /\ UNCHANGED <<power_cache_ptr, cache_size, power_cache, eng_live,
                           eng_released, eng_next>>
       ELSE IF ~cache_ok
       THEN /\ galois_engine' = symmetrix_galois_init(prime)
            /\ crt_primes_ptr' = eng_next
            /\ cache_size' = PowerCacheSlots
            /\ power_cache_ptr' = 0
            /\ power_cache' = << >>
            /\ eng_live' = eng_live \cup {eng_next}
            /\ eng_released' = eng_released
            /\ eng_rc' = 0 - ENOMEM
            /\ eng_allocated' = {eng_next}
            /\ eng_next' = eng_next + 1
       ELSE /\ galois_engine' = symmetrix_galois_init(prime)
            /\ crt_primes_ptr' = eng_next
            /\ cache_size' = PowerCacheSlots
            /\ power_cache_ptr' = eng_next + 1
            /\ power_cache' = power_cache_fill(prime)
            /\ eng_live' = eng_live \cup {eng_next, eng_next + 1}
            /\ eng_released' = eng_released
            /\ eng_rc' = 0
            /\ eng_allocated' = {eng_next, eng_next + 1}
            /\ eng_next' = eng_next + 2

\* rc = symmetrix_galois_init(prime); crt_ok and cache_ok tell whether the
\* kmalloc of the CRT table and of the power cache succeed.  prime and
\* num_crt_primes are stored before the first allocation; when the second
\* allocation fails the CRT table is released and its pointer is left in
\* galois_engine.crt_primes.
GaloisInit(prime, crt_ok, cache_ok) ==
    /\ eng_calls < MaxEngineCalls
    /\ eng_calls' = eng_calls + 1
    /\ eng_op' = EngineCall("init", prime, crt_ok, cache_ok)
    /\ IF ~crt_ok
       THEN /\ galois_engine' = [prime |-> prime,
                                 num_crt_primes |-> SYMMETRIX_NUM_CRT_PRIMES,
                                 crt_primes |-> << >>]
            /\ crt_primes_ptr' = 0
            /\ eng_rc' = 0 - ENOMEM
            /\ eng_allocated' = {}
            /\ UNCHANGED <<power_cache_ptr, cache_size, power_cache, eng_live,
                           eng_released, eng_next>>
       ELSE IF ~cache_ok
       THEN /\ galois_engine' = symmetrix_galois_init(prime)
            /\ crt_primes_ptr' = eng_next
            /\ cache_size' = PowerCacheSlots
            /\ power_cache_ptr' = 0
            /\ power_cache' = << >>
            /\ eng_live' = kfree(eng_next, eng_live \cup {eng_next})
            /\ eng_released' = kfree_count(eng_next, eng_released)
            /\ eng_rc' = 0 - ENOMEM
            /\ eng_allocated' = {eng_next}
            /\ eng_next' = eng_next + 1
       ELSE /\ galois_engine' = symmetrix_galois_init(prime)
            /\ crt_primes_ptr' = eng_next
            /\ cache_size' = PowerCacheSlots
            /\ power_cache_ptr' = eng_next + 1
            /\ power_cache' = power_cache_fill(prime)
            /\ eng_live' = eng_live \cup {eng_next, eng_next + 1}
            /\ eng_released' = eng_released
            /\ eng_rc' = 0
            /\ eng_allocated' = {eng_next, eng_next + 1}
            /\ eng_next' = eng_next + 2

\* symmetrix_galois_cleanup(): kfree of both pointers as the engine holds
\* them, then the memset of the engine.
GaloisCleanup ==
    /\ eng_calls < MaxEngineCalls
    /\ eng_calls' = eng_calls + 1
    /\ eng_op' = EngineCall("cleanup", 0, TRUE, TRUE)
    /\ eng_live' = kfree(power_cache_ptr, kfree(crt_primes_ptr, eng_live))
    /\ eng_released' = kfree_count(power_cache_ptr,
                                   kfree_count(crt_primes_ptr, eng_released))
    /\ galois_engine' = ZeroEngine
    /\ crt_primes_ptr' = 0
    /\ power_cache_ptr' = 0
    /\ cache_size' = 0
    /\ power_cache' = << >>
    /\ eng_allocated' = {}
    /\ UNCHANGED <<eng_rc, eng_next>>

-----------------------------------------------------------------------------
(* Specification SpecRace: the sampler's three stores and the reads of one  *)
(* status report, interleaved                                               *)

\* The number of samples the sampler publishes in one behaviour.
MaxSamples == 2

\* The fields of symmetrix_global.h2_cohomology the sampler stores.
H2Fields == {"dimension", "computed_at", "valid"}

\* What the reader has printed before it starts.
NoRaceReport == [dimension |-> 0, valid |-> FALSE, age_printed |-> FALSE, age |-> 0]

IdleRaceVars ==
    /\ smp_pc = "compute"
    /\ smp_dim = 0
    /\ smp_n = 0
    /\ smp_pending = {}
    /\ fld_n = [f \in H2Fields |-> 0]
    /\ rd_pc = "dimension"
    /\ rd_report = NoRaceReport
    /\ rd_n = [dimension |-> 0, age |-> 0]

\* After symmetrix_init has returned 0: the stalks hold their capacities,
\* h2_cohomology is zero, the sampler is about to run its first iteration.
InitRaceStalkVars ==
    /\ cpu_stalks = [c \in CpuIds |-> Stalk(InitCapacity, ZeroVector)]
    /\ cpu_online = CpuIds
    /\ enable_sheaf_scheduler = TRUE
    /\ jiffies \in {0, ULLONG_MAX - 34}
    /\ h2_cohomology = [dimension |-> 0, computed_at |-> 0, valid |-> FALSE]
    /\ sel_done = FALSE
    /\ sel_prev = 0
    /\ sel_result = 0

\* cohomology_thread_fn: the call of symmetrix_compute_h2_cohomology at the
\* top of an iteration.
SmpCompute ==
    /\ smp_pc = "compute"
    /\ smp_n < MaxSamples
    /\ smp_n' = smp_n + 1
    /\ smp_dim' = symmetrix_compute_h2_cohomology(cpu_stalks, num_online_cpus(cpu_online))
    /\ smp_pending' = H2Fields
    /\ smp_pc' = "store"
    /\ UNCHANGED <<fld_n, rd_pc, rd_report, rd_n>>
    /\ UNCHANGED svars

\* One of the three stores of the iteration becomes visible.  They are
\* plain stores to a shared struct, with no lock and no barrier between
\* them or against the reader: the compiler and the processor may make them
\* visible in any order.
SmpStore(f) ==
    /\ smp_pc = "store"
    /\ f \in smp_pending
    /\ h2_cohomology' =
          [h2_cohomology EXCEPT ![f] = IF f = "dimension" THEN smp_dim
                                       ELSE IF f = "computed_at" THEN jiffies
                                       ELSE TRUE]
    /\ fld_n' = [fld_n EXCEPT ![f] = smp_n]
    /\ smp_pending' = smp_pending \ {f}
    /\ smp_pc' = IF smp_pending = {f} THEN "sleep" ELSE "store"
    /\ UNCHANGED <<smp_dim, smp_n, rd_pc, rd_report, rd_n>>
    /\ UNCHANGED <<cpu_stalks, cpu_online, enable_sheaf_scheduler, jiffies,
                   sel_done, sel_prev, sel_result>>

\* ssleep(30), from its call to its return.
SmpSleep ==
    /\ smp_pc = "sleep"
    /\ smp_pc' = "compute"
    /\ jiffies' = (jiffies + (SleepSeconds * HZ)) % U64
    /\ UNCHANGED <<smp_dim, smp_n, smp_pending, fld_n, rd_pc, rd_report, rd_n>>
    /\ UNCHANGED <<cpu_stalks, cpu_online, enable_sheaf_scheduler, h2_cohomology,
                   sel_done, sel_prev, sel_result>>

\* symmetrix_proc_show: the read of h2_cohomology.dimension for the
\* dimension line.
RdDimension ==
    /\ rd_pc = "dimension"
    /\ rd_report' = [rd_report EXCEPT !.dimension = h2_cohomology.dimension]
    /\ rd_n' = [rd_n EXCEPT !.dimension = fld_n["dimension"]]
    /\ rd_pc' = "valid"
    /\ UNCHANGED <<smp_pc, smp_dim, smp_n, smp_pending, fld_n>>
    /\ UNCHANGED svars

\* symmetrix_proc_show: the read of h2_cohomology.valid for the valid line.
RdValid ==
    /\ rd_pc = "valid"
    /\ rd_report' = [rd_report EXCEPT !.valid = h2_cohomology.valid]
    /\ rd_pc' = "test"
    /\ UNCHANGED <<smp_pc, smp_dim, smp_n, smp_pending, fld_n, rd_n>>
    /\ UNCHANGED svars

\* symmetrix_proc_show: if (symmetrix_global.h2_cohomology.valid), a second
\* read of the flag.
RdTest ==
    /\ rd_pc = "test"
    /\ rd_pc' = IF h2_cohomology.valid THEN "age" ELSE "done"
    /\ UNCHANGED <<smp_pc, smp_dim, smp_n, smp_pending, fld_n, rd_report, rd_n>>
    /\ UNCHANGED svars

\* symmetrix_proc_show: the reads of jiffies and of computed_at for the age
\* line.
RdAge ==
    /\ rd_pc = "age"
    /\ rd_report' = [rd_report EXCEPT
                        !.age_printed = TRUE,
                        !.age = proc_show_age(jiffies, h2_cohomology.computed_at)]
    /\ rd_n' = [rd_n EXCEPT !.age = fld_n["computed_at"]]
    /\ rd_pc' = "done"
    /\ UNCHANGED <<smp_pc, smp_dim, smp_n, smp_pending, fld_n>>
    /\ UNCHANGED svars

-----------------------------------------------------------------------------
(* Specification SpecMsi: msi_fpga_remove running against calls of          *)
(* msi_amplify_storage_access and msi_get_performance_stats                 *)

\* The arguments logical_address of msi_amplify_storage_access: inside the
\* physical boundary, and beyond it.
AmpAddresses == {0, BoundEngine.boundary_size}

\* The physical addresses the device returns for a reconstruction.
AmpPhysical == {1, 2}

IdleMsiVars ==
    /\ rm_pc = "idle"
    /\ msi_freed = FALSE
    /\ st_pc = "idle"
    /\ st_engine = FALSE
    /\ st_stats = ZeroStats
    /\ am_pc = "idle"
    /\ am_engine = FALSE
    /\ am_addr = 0
    /\ am_rc = 0
    /\ msi_stale_access = {}

\* After msi_fpga_probe has returned 0 (or before it has run): the engine
\* is bound, or global_msi_engine is NULL.
InitMsiReportVars ==
    /\ enable_msi = TRUE
    /\ global_msi_engine \in {BoundEngine, NullEngine}
    /\ rep_done = FALSE
    /\ proc_report = NoReport

\* The calls that have accessed the engine after its kfree, once the call
\* named has accessed it.
engine_access(call) ==
    IF msi_freed THEN msi_stale_access \cup {call} ELSE msi_stale_access

\* msi_fpga_remove: the device is disabled and global_msi_engine = NULL.
\* The engine's memory keeps its contents.
RemoveUnpublish ==
    /\ rm_pc = "idle"
    /\ global_msi_engine.bound
    /\ global_msi_engine' = [global_msi_engine EXCEPT !.bound = FALSE]
    /\ rm_pc' = "unpublished"
    /\ UNCHANGED <<msi_freed, st_pc, st_engine, st_stats, am_pc, am_engine, am_addr,
                   am_rc, msi_stale_access>>
    /\ UNCHANGED <<enable_msi, rep_done, proc_report>>

\* msi_fpga_remove: free_irq, dma_free_coherent, iounmap and kfree(engine).
\* Nothing waits for a call that has loaded the pointer before.
RemoveFree ==
    /\ rm_pc = "unpublished"
    /\ msi_freed' = TRUE
    /\ rm_pc' = "done"
    /\ UNCHANGED <<st_pc, st_engine, st_stats, am_pc, am_engine, am_addr, am_rc,
                   msi_stale_access>>
    /\ UNCHANGED rvars

\* msi_get_performance_stats: engine = global_msi_engine, and the return
\* when it is NULL.
StatsLoad ==
    /\ st_pc = "idle"
    /\ st_engine' = global_msi_engine.bound
    /\ st_pc' = IF global_msi_engine.bound THEN "loaded" ELSE "done"
    /\ UNCHANGED <<rm_pc, msi_freed, st_stats, am_pc, am_engine, am_addr, am_rc,
                   msi_stale_access>>
    /\ UNCHANGED rvars

\* msi_get_performance_stats: the seven reads through the local pointer.
\* From memory that has been passed to kfree they return its old contents
\* or what has been written there since (here: zeros).
StatsRead ==
    /\ st_pc = "loaded"
    /\ st_stats' \in
          {msi_get_performance_stats([global_msi_engine EXCEPT !.bound = TRUE],
                                     st_stats)}
             \cup (IF msi_freed THEN {ZeroStats} ELSE {})
    /\ msi_stale_access' = engine_access("stats")
    /\ st_pc' = "done"
    /\ UNCHANGED <<rm_pc, msi_freed, st_engine, am_pc, am_engine, am_addr, am_rc>>
    /\ UNCHANGED rvars

\* msi_amplify_storage_access: engine = global_msi_engine, and the return
\* of 0 when it is NULL.
AmpLoad(addr) ==
    /\ am_pc = "idle"
    /\ am_addr' = addr
    /\ am_engine' = global_msi_engine.bound
    /\ am_pc' = IF global_msi_engine.bound THEN "loaded" ELSE "done"
    /\ am_rc' = 0
    /\ UNCHANGED <<rm_pc, msi_freed, st_pc, st_engine, st_stats, msi_stale_access>>
    /\ UNCHANGED rvars

\* msi_amplify_storage_access: the read of engine->holographic.
\* encoding_active (1 in a probed engine; from freed memory, 1 or 0) and
\* the return of 0 when it is 0.
AmpActive(active) ==
    /\ am_pc = "loaded"
    /\ active \/ msi_freed
    /\ msi_stale_access' = engine_access("amplify")
    /\ am_pc' = IF active THEN "active" ELSE "done"
    /\ UNCHANGED <<rm_pc, msi_freed, st_pc, st_engine, st_stats, am_engine, am_addr,
                   am_rc>>
    /\ UNCHANGED rvars

\* msi_amplify_storage_access: spin_lock_irqsave of the engine's
\* encoding_lock.
AmpLock ==
    /\ am_pc = "active"
    /\ msi_stale_access' = engine_access("amplify")
    /\ am_pc' = "locked"
    /\ UNCHANGED <<rm_pc, msi_freed, st_pc, st_engine, st_stats, am_engine, am_addr,
                   am_rc>>
    /\ UNCHANGED rvars

\* msi_amplify_storage_access under the lock: the cache hit, or the
\* reconstruction by the device (error tells whether it reports
\* MSI_STATUS_ERROR, phys is the address it returns), and the counters.
AmpCount(error, phys) ==
    /\ am_pc = "locked"
    /\ msi_stale_access' = engine_access("amplify")
    /\ IF am_addr < global_msi_engine.boundary_size
       THEN /\ am_rc' = am_addr
            /\ global_msi_engine' =
                  [global_msi_engine EXCEPT
                      !.cache_hits = (@ + 1) % U64,
                      !.amplification_ops = (@ + 1) % U64]
       ELSE /\ am_rc' = IF error THEN 0 ELSE phys
            /\ global_msi_engine' =
                  [global_msi_engine EXCEPT
                      !.reconstructions = IF error THEN @ ELSE (@ + 1) % U64,
                      !.cache_misses = (@ + 1) % U64,
                      !.amplification_ops = (@ + 1) % U64]
    /\ am_pc' = "counted"
    /\ UNCHANGED <<rm_pc, msi_freed, st_pc, st_engine, st_stats, am_engine, am_addr>>
    /\ UNCHANGED <<enable_msi, rep_done, proc_report>>

\* msi_amplify_storage_access: spin_unlock_irqrestore and the return.
AmpUnlock ==
    /\ am_pc = "counted"
    /\ msi_stale_access' = engine_access("amplify")
    /\ am_pc' = "done"
    /\ UNCHANGED <<rm_pc, msi_freed, st_pc, st_engine, st_stats, am_engine, am_addr,
                   am_rc>>
    /\ UNCHANGED rvars

-----------------------------------------------------------------------------
(* The specifications *)

InitArith ==
    /\ EngineInit /\ InitArithVars /\ IdlePowVars /\ IdleCrtVars /\ IdleStalkVars
    /\ IdleMatVars /\ IdleTensorVars
    /\ InitLifeVars /\ InitLockVars /\ IdleReportVars
    /\ IdleEngineVars /\ IdleRaceVars /\ IdleMsiVars
NextArith ==
    \/ GaloisAdd /\ UNCHANGED <<evars, pvars, cvars, svars, mvars, tvars, lvars, kvars, rvars,
                     hvars, nvars, xvars, fvars>>
    \/ GaloisMul /\ UNCHANGED <<evars, pvars, cvars, svars, mvars, tvars, lvars, kvars, rvars,
                     hvars, nvars, xvars, fvars>>
    \/ GaloisInv /\ UNCHANGED <<evars, pvars, cvars, svars, mvars, tvars, lvars, kvars, rvars,
                     hvars, nvars, xvars, fvars>>
    \/ GaloisMulInv /\ UNCHANGED <<evars, pvars, cvars, svars, mvars, tvars, lvars, kvars, rvars,
                     hvars, nvars, xvars, fvars>>
SpecArith == InitArith /\ [][NextArith]_vars

InitPow ==
    /\ EngineInit /\ IdleArithVars /\ InitPowVars /\ IdleCrtVars /\ IdleStalkVars
    /\ IdleMatVars /\ IdleTensorVars
    /\ InitLifeVars /\ InitLockVars /\ IdleReportVars
    /\ IdleEngineVars /\ IdleRaceVars /\ IdleMsiVars
NextPow == GaloisPow /\ UNCHANGED <<evars, gvars, cvars, svars, mvars, tvars, lvars, kvars, rvars,
                     hvars, nvars, xvars, fvars>>
SpecPow == InitPow /\ [][NextPow]_vars

InitCrt ==
    /\ EngineInit /\ IdleArithVars /\ IdlePowVars /\ InitCrtVars /\ IdleStalkVars
    /\ IdleMatVars /\ IdleTensorVars
    /\ InitLifeVars /\ InitLockVars /\ IdleReportVars
    /\ IdleEngineVars /\ IdleRaceVars /\ IdleMsiVars
NextCrt ==
    \/ CrtDecompose /\ UNCHANGED <<evars, gvars, pvars, svars, mvars, tvars, lvars, kvars, rvars,
                     hvars, nvars, xvars, fvars>>
    \/ CrtReconstruct /\ UNCHANGED <<evars, gvars, pvars, svars, mvars, tvars, lvars, kvars, rvars,
                     hvars, nvars, xvars, fvars>>
SpecCrt == InitCrt /\ [][NextCrt]_vars

InitMat ==
    /\ IdleArithVars /\ IdlePowVars /\ IdleCrtVars /\ IdleStalkVars
    /\ InitMatVars /\ IdleTensorVars
    /\ InitLifeVars /\ InitLockVars /\ IdleReportVars
    /\ IdleEngineVars /\ IdleRaceVars /\ IdleMsiVars
NextMat == GaloisMatrixMul /\ UNCHANGED <<evars, gvars, pvars, cvars, svars, tvars, lvars, kvars, rvars,
                     hvars, nvars, xvars, fvars>>
SpecMat == InitMat /\ [][NextMat]_vars

InitTensor ==
    /\ EngineInit /\ IdleArithVars /\ IdlePowVars /\ IdleCrtVars /\ IdleStalkVars
    /\ IdleMatVars /\ InitTensorVars
    /\ InitLifeVars /\ InitLockVars /\ IdleReportVars
    /\ IdleEngineVars /\ IdleRaceVars /\ IdleMsiVars
NextTensor ==
    \/ \E block_ok, data_ok \in BOOLEAN :
          TensorAlloc(block_ok, data_ok)
              /\ UNCHANGED <<evars, gvars, pvars, cvars, svars, mvars, lvars, kvars, rvars,
                     hvars, nvars, xvars, fvars>>
    \/ TensorFree /\ UNCHANGED <<evars, gvars, pvars, cvars, svars, mvars, lvars, kvars, rvars,
                     hvars, nvars, xvars, fvars>>
SpecTensor == InitTensor /\ [][NextTensor]_vars

Init ==
    /\ EngineInit /\ IdleArithVars /\ IdlePowVars /\ IdleCrtVars /\ InitStalkVars
    /\ IdleMatVars /\ IdleTensorVars
    /\ InitLifeVars /\ InitLockVars /\ IdleReportVars
    /\ IdleEngineVars /\ IdleRaceVars /\ IdleMsiVars
Next ==
    \/ \E prev_cpu \in CpuIds :
          SelectCpu(prev_cpu) /\ UNCHANGED <<evars, gvars, pvars, cvars, mvars, tvars, lvars, kvars, rvars,
                     hvars, nvars, xvars, fvars>>
    \/ SamplerPublish /\ UNCHANGED <<evars, gvars, pvars, cvars, mvars, tvars, lvars, kvars, rvars,
                     hvars, nvars, xvars, fvars>>
Spec == Init /\ [][Next]_vars

InitRead ==
    /\ EngineInit /\ IdleArithVars /\ IdlePowVars /\ IdleCrtVars /\ InitReadStalkVars
    /\ IdleMatVars /\ IdleTensorVars
    /\ InitLifeVars /\ InitReadLockVars /\ InitReportVars
    /\ IdleEngineVars /\ IdleRaceVars /\ IdleMsiVars
NextRead ==
    \/ \E prev_cpu \in CpuIds :
          SelectCpu(prev_cpu)
              /\ UNCHANGED <<evars, gvars, pvars, cvars, mvars, tvars, lvars, kvars, rvars,
                     hvars, nvars, xvars, fvars>>
    \/ ProcShow
          /\ UNCHANGED <<evars, gvars, pvars, cvars, svars, mvars, tvars, lvars, kvars,
                     hvars, nvars, xvars, fvars>>
SpecRead == InitRead /\ [][NextRead]_vars

InitLife ==
    /\ EngineInit /\ IdleArithVars /\ IdlePowVars /\ IdleCrtVars /\ InitLifeStalkVars
    /\ IdleMatVars /\ IdleTensorVars
    /\ InitLifeVars /\ InitLockVars /\ IdleReportVars
    /\ IdleEngineVars /\ IdleRaceVars /\ IdleMsiVars
NextLife ==
    \/ \E ok \in BOOLEAN :
          SymmetrixInitMkdir(ok) /\ UNCHANGED <<evars, gvars, pvars, cvars, mvars, tvars, rvars,
                     hvars, nvars, xvars, fvars>>
    \/ \E ok \in BOOLEAN :
          SymmetrixInitCreate(ok) /\ UNCHANGED <<evars, gvars, pvars, cvars, mvars, tvars, rvars,
                     hvars, nvars, xvars, fvars>>
    \/ \E ok \in BOOLEAN :
          SymmetrixInitKthread(ok) /\ UNCHANGED <<evars, gvars, pvars, cvars, mvars, tvars, rvars,
                     hvars, nvars, xvars, fvars>>
    \/ ThreadStart /\ UNCHANGED <<evars, gvars, pvars, cvars, mvars, tvars, rvars,
                     hvars, nvars, xvars, fvars>>
    \/ SamplerCheck /\ UNCHANGED <<evars, gvars, pvars, cvars, mvars, tvars, rvars,
                     hvars, nvars, xvars, fvars>>
    \/ SamplerWork /\ UNCHANGED <<evars, gvars, pvars, cvars, mvars, tvars, rvars,
                     nvars, xvars, fvars>>
    \/ SamplerWake /\ UNCHANGED <<evars, gvars, pvars, cvars, mvars, tvars, rvars,
                     hvars, nvars, xvars, fvars>>
    \/ SymmetrixExitStop /\ UNCHANGED <<evars, gvars, pvars, cvars, mvars, tvars, rvars,
                     hvars, nvars, xvars, fvars>>
    \/ SymmetrixExitJoin /\ UNCHANGED <<evars, gvars, pvars, cvars, mvars, tvars, rvars,
                     hvars, nvars, xvars, fvars>>
    \/ SymmetrixExitRemove /\ UNCHANGED <<evars, gvars, pvars, cvars, mvars, tvars, rvars,
                     hvars, nvars, xvars, fvars>>
    \/ Tick /\ UNCHANGED <<evars, gvars, pvars, cvars, mvars, tvars, rvars,
                     hvars, nvars, xvars, fvars>>
    \/ StatusRead /\ UNCHANGED <<evars, gvars, pvars, cvars, mvars, tvars,
                     hvars, nvars, xvars, fvars>>
SpecLife == InitLife /\ [][NextLife]_vars

InitEngine ==
    /\ InitEngineVars /\ IdleArithVars /\ IdlePowVars /\ IdleCrtVars /\ IdleStalkVars
    /\ IdleMatVars /\ IdleTensorVars
    /\ InitLifeVars /\ InitLockVars /\ IdleReportVars
    /\ IdleRaceVars /\ IdleMsiVars
NextEngine ==
    \/ \E prime \in EnginePrimes, crt_ok \in BOOLEAN, cache_ok \in BOOLEAN :
          GaloisInit(prime, crt_ok, cache_ok)
              /\ UNCHANGED <<gvars, pvars, cvars, svars, mvars, tvars, lvars, kvars,
                             rvars, hvars, xvars, fvars>>
    \/ GaloisCleanup
          /\ UNCHANGED <<gvars, pvars, cvars, svars, mvars, tvars, lvars, kvars,
                         rvars, hvars, xvars, fvars>>
SpecEngine == InitEngine /\ [][NextEngine]_vars

\* The lifecycle with time passing for ever, the threads scheduled fairly
\* and every sleep ending: a step of the sampler, of symmetrix_exit after
\* its stop request, or of the clock that stays possible is eventually
\* taken.
SamplerStep ==
    \/ ThreadStart /\ UNCHANGED <<evars, gvars, pvars, cvars, mvars, tvars, rvars,
                                  hvars, nvars, xvars, fvars>>
    \/ SamplerCheck /\ UNCHANGED <<evars, gvars, pvars, cvars, mvars, tvars, rvars,
                                   hvars, nvars, xvars, fvars>>
    \/ SamplerWork /\ UNCHANGED <<evars, gvars, pvars, cvars, mvars, tvars, rvars,
                                  nvars, xvars, fvars>>
    \/ SamplerWake /\ UNCHANGED <<evars, gvars, pvars, cvars, mvars, tvars, rvars,
                                  hvars, nvars, xvars, fvars>>
ExitStep ==
    \/ SymmetrixExitJoin /\ UNCHANGED <<evars, gvars, pvars, cvars, mvars, tvars, rvars,
                                        hvars, nvars, xvars, fvars>>
    \/ SymmetrixExitRemove /\ UNCHANGED <<evars, gvars, pvars, cvars, mvars, tvars,
                                          rvars, hvars, nvars, xvars, fvars>>
ClockStep ==
    \/ Tick /\ UNCHANGED <<evars, gvars, pvars, cvars, mvars, tvars, rvars,
                           hvars, nvars, xvars, fvars>>
    \/ LateTick /\ UNCHANGED <<evars, gvars, pvars, cvars, mvars, tvars, rvars,
                               hvars, nvars, xvars, fvars>>
\* The steps of the sampler thread as the fairness condition names them:
\* within NextLifeFair they are the steps of SamplerStep.
SamplerFairStep ==
    \/ ThreadStart /\ UNCHANGED <<evars, gvars, pvars, cvars, mvars, tvars, rvars,
                                  hvars, nvars, xvars, fvars>>
    \/ SamplerCheck /\ UNCHANGED <<evars, gvars, pvars, cvars, mvars, tvars, rvars,
                                   hvars, nvars, xvars, fvars>>
    \/ SamplerWorkSome /\ UNCHANGED <<evars, gvars, pvars, cvars, mvars, tvars, rvars,
                                      nvars, xvars, fvars>>
    \/ SamplerWake /\ UNCHANGED <<evars, gvars, pvars, cvars, mvars, tvars, rvars,
                                  hvars, nvars, xvars, fvars>>
NextLifeFair ==
    \/ \E ok \in BOOLEAN :
          SymmetrixInitMkdir(ok) /\ UNCHANGED <<evars, gvars, pvars, cvars, mvars, tvars,
                                               rvars, hvars, nvars, xvars, fvars>>
    \/ \E ok \in BOOLEAN :
          SymmetrixInitCreate(ok) /\ UNCHANGED <<evars, gvars, pvars, cvars, mvars, tvars,
                                                rvars, hvars, nvars, xvars, fvars>>
    \/ \E ok \in BOOLEAN :
          SymmetrixInitKthread(ok) /\ UNCHANGED <<evars, gvars, pvars, cvars, mvars,
                                                 tvars, rvars, hvars, nvars, xvars,
                                                 fvars>>
    \/ SymmetrixExitStop /\ UNCHANGED <<evars, gvars, pvars, cvars, mvars, tvars, rvars,
                                        hvars, nvars, xvars, fvars>>
    \/ SamplerStep
    \/ ExitStep
    \/ ClockStep
FairLife == WF_vars(SamplerFairStep) /\ WF_vars(ExitStep) /\ WF_vars(ClockStep)
SpecLifeFair == InitLife /\ [][NextLifeFair]_vars /\ FairLife

InitRace ==
    /\ EngineInit /\ IdleArithVars /\ IdlePowVars /\ IdleCrtVars /\ InitRaceStalkVars
    /\ IdleMatVars /\ IdleTensorVars
    /\ InitLifeVars /\ InitLockVars /\ IdleReportVars
    /\ IdleEngineVars /\ IdleRaceVars /\ IdleMsiVars
NextRace ==
    \/ SmpCompute /\ UNCHANGED <<evars, gvars, pvars, cvars, mvars, tvars, lvars, kvars,
                                 rvars, hvars, nvars, fvars>>
    \/ \E f \in H2Fields :
          SmpStore(f) /\ UNCHANGED <<evars, gvars, pvars, cvars, mvars, tvars, lvars,
                                    kvars, rvars, hvars, nvars, fvars>>
    \/ SmpSleep /\ UNCHANGED <<evars, gvars, pvars, cvars, mvars, tvars, lvars, kvars,
                               rvars, hvars, nvars, fvars>>
    \/ RdDimension /\ UNCHANGED <<evars, gvars, pvars, cvars, mvars, tvars, lvars, kvars,
                                  rvars, hvars, nvars, fvars>>
    \/ RdValid /\ UNCHANGED <<evars, gvars, pvars, cvars, mvars, tvars, lvars, kvars,
                              rvars, hvars, nvars, fvars>>
    \/ RdTest /\ UNCHANGED <<evars, gvars, pvars, cvars, mvars, tvars, lvars, kvars,
                             rvars, hvars, nvars, fvars>>
    \/ RdAge /\ UNCHANGED <<evars, gvars, pvars, cvars, mvars, tvars, lvars, kvars,
                            rvars, hvars, nvars, fvars>>
SpecRace == InitRace /\ [][NextRace]_vars

InitMsi ==
    /\ EngineInit /\ IdleArithVars /\ IdlePowVars /\ IdleCrtVars /\ IdleStalkVars
    /\ IdleMatVars /\ IdleTensorVars
    /\ InitLifeVars /\ InitLockVars /\ InitMsiReportVars
    /\ IdleEngineVars /\ IdleRaceVars /\ IdleMsiVars
NextMsi ==
    \/ RemoveUnpublish /\ UNCHANGED <<evars, gvars, pvars, cvars, svars, mvars, tvars,
                                      lvars, kvars, hvars, nvars, xvars>>
    \/ RemoveFree /\ UNCHANGED <<evars, gvars, pvars, cvars, svars, mvars, tvars,
                                 lvars, kvars, hvars, nvars, xvars>>
    \/ StatsLoad /\ UNCHANGED <<evars, gvars, pvars, cvars, svars, mvars, tvars,
                                lvars, kvars, hvars, nvars, xvars>>
    \/ StatsRead /\ UNCHANGED <<evars, gvars, pvars, cvars, svars, mvars, tvars,
                                lvars, kvars, hvars, nvars, xvars>>
    \/ \E addr \in AmpAddresses :
          AmpLoad(addr) /\ UNCHANGED <<evars, gvars, pvars, cvars, svars, mvars, tvars,
                                      lvars, kvars, hvars, nvars, xvars>>
    \/ \E active \in BOOLEAN :
          AmpActive(active) /\ UNCHANGED <<evars, gvars, pvars, cvars, svars, mvars,
                                          tvars, lvars, kvars, hvars, nvars, xvars>>
    \/ AmpLock /\ UNCHANGED <<evars, gvars, pvars, cvars, svars, mvars, tvars,
                              lvars, kvars, hvars, nvars, xvars>>
    \/ \E error \in BOOLEAN, phys \in AmpPhysical :
          AmpCount(error, phys) /\ UNCHANGED <<evars, gvars, pvars, cvars, svars,
                                              mvars, tvars, lvars, kvars, hvars,
                                              nvars, xvars>>
    \/ AmpUnlock /\ UNCHANGED <<evars, gvars, pvars, cvars, svars, mvars, tvars,
                                lvars, kvars, hvars, nvars, xvars>>
SpecMsi == InitMsi /\ [][NextMsi]_vars

-----------------------------------------------------------------------------
(* Reference arithmetic for the properties: independent of the operators   *)
(* that model the code                                                      *)

\* Base of the limbs of the reference multiplication.
Limb == 2^15

\* The exact product x * y of two words as base-Limb digits, most
\* significant first (schoolbook multiplication of two-limb numbers).
ProductLimbs(x, y) ==
    LET x0 == x % Limb
        x1 == x \div Limb
        y0 == y % Limb
        y1 == y \div Limb
        p0 == x0 * y0
        p1 == (x1 * y0) + (x0 * y1) + (p0 \div Limb)
        p2 == (x1 * y1) + (p1 \div Limb)
    IN  <<p2 \div Limb, p2 % Limb, p1 % Limb, p0 % Limb>>

\* Long division by m: st = <<remainder so far, bits of the limb left>>.
RECURSIVE ModLimbBits(_, _, _)
ModLimbBits(st, limb, m) ==
    IF st[2] = 0 THEN st[1]
    ELSE ModLimbBits(<<((2 * st[1]) + ((limb \div (2^(st[2] - 1))) % 2)) % m,
                       st[2] - 1>>, limb, m)

\* The mathematical (x * y) mod m: directly where the model's integers hold
\* the product, else by schoolbook multiplication and long division.
RefProductMod(x, y, m) ==
    IF y = 0 \/ x <= (2^30) \div y
    THEN (x * y) % m
    ELSE LET d  == ProductLimbs(x, y)
             r3 == ModLimbBits(<<0, 15>>, d[1], m)
             r2 == ModLimbBits(<<r3, 15>>, d[2], m)
             r1 == ModLimbBits(<<r2, 15>>, d[3], m)
         IN  ModLimbBits(<<r1, 15>>, d[4], m)

\* st = <<acc, n>>: acc multiplied by base n times, reduced modulo m after
\* each multiplication (the first half of the multiplications, then the
\* rest).
RECURSIVE RepeatedMul(_, _, _)
RepeatedMul(st, base, m) ==
    IF st[2] = 0 THEN st[1]
    ELSE IF st[2] = 1 THEN RefProductMod(st[1], base, m)
    ELSE RepeatedMul(<<RepeatedMul(<<st[1], st[2] \div 2>>, base, m),
                       st[2] - (st[2] \div 2)>>, base, m)

RECURSIVE Gcd(_, _)
Gcd(x, y) == IF y = 0 THEN x ELSE Gcd(y, x % y)

IsPrime(n) == n > 1 /\ \A d \in 2 .. Limb : d * d > n \/ n % d # 0

\* The prime moduli among the operands' moduli.
PrimeModuli == {m \in ArithModuli : IsPrime(m)}

\* v < p_1 * ... * p_k for the first k table primes, without forming the
\* product: v < p * q iff (v div p) < q.
RECURSIVE LessThanPrimeProduct(_, _)
LessThanPrimeProduct(v, k) ==
    IF k = 0 THEN v < 1
    ELSE LessThanPrimeProduct(v \div symmetrix_crt_primes[k], k - 1)

\* The obstruction of the specification, sum over the kinds k of
\* max(0, allocated[k] - 0.8 * capacity[k]), as an exact rational: the loop
\* over the kinds on st = <<k, q, r>>, the sum so far being q + r/5.  With
\* capacity = 5u + r', allocated - 0.8 * capacity = (allocated - 4u - r') + r'/5.
RECURSIVE SoftOverflowLoop(_, _)
SoftOverflowLoop(st, stalk) ==
    IF st[1] > SYMMETRIX_RESOURCE_MAX THEN <<st[2] + (st[3] \div 5), st[3] % 5>>
    ELSE LET c == stalk.resources[st[1]]
             q == stalk.allocated[st[1]] - (4 * (c \div 5)) - (c % 5)
             r == c % 5
         IN  IF q > 0 \/ (q = 0 /\ r > 0)
             THEN SoftOverflowLoop(<<st[1] + 1, st[2] + q, st[3] + r>>, stalk)
             ELSE SoftOverflowLoop(<<st[1] + 1, st[2], st[3]>>, stalk)

SoftOverflow(stalk) == SoftOverflowLoop(<<1, 0, 0>>, stalk)

\* x <= y for rationals <<q, r>> = q + r/5 with r in 0 .. 4.
LeqFifths(x, y) == x[1] < y[1] \/ (x[1] = y[1] /\ x[2] <= y[2])

-----------------------------------------------------------------------------
(* Properties *)

\* C1: CRT round trip.  For every k from 1 to the table size and every
\* value v below the product of the first k table primes, decompose
\* followed by reconstruct both return 0 and the reconstructed value is v.
C1_CrtRoundTrip ==
    (/\ crt_pc = "reconstructed"
     /\ crt_k \in 1 .. SYMMETRIX_NUM_CRT_PRIMES
     /\ LessThanPrimeProduct(crt_value, crt_k))
    => (crt_dec_rc = 0 /\ crt_rec_rc = 0 /\ crt_out = crt_value)

\* C5: for operands of equal modulus m >= 1 over the full word range, add
\* returns modulus m and the mathematical (a.value + b.value) mod m.
C5_AddIsModularSum ==
    (g_op = "add" /\ g_a.modulus = g_b.modulus /\ g_a.modulus >= 1)
    => (/\ g_res.modulus = g_a.modulus
        /\ g_res.value = (g_a.value + g_b.value) % g_a.modulus
        /\ g_res.value \in 0 .. (g_a.modulus - 1))

\* C6: for every prime modulus m below half the word range and every a
\* with a.value nonzero and coprime to m, inv(a).value lies in [0, m) and
\* mul(a, inv(a)).value is 1.
C6_InverseLaw ==
    (/\ g_a.modulus \in PrimeModuli
     /\ g_a.modulus < U64 \div 2
     /\ g_a.value # 0
     /\ Gcd(g_a.value, g_a.modulus) = 1)
    => (/\ g_op = "inv" => g_res.value \in 0 .. (g_a.modulus - 1)
        /\ g_op = "mul_inv" => g_res.value = 1)

\* C7: for operands of equal modulus m >= 1, mul returns the untruncated
\* product a.value * b.value reduced modulo m.
C7_MulIsWideProduct ==
    (g_op = "mul" /\ g_a.modulus = g_b.modulus /\ g_a.modulus >= 1)
    => (/\ g_res.modulus = g_a.modulus
        /\ g_res.value = RefProductMod(g_a.value, g_b.value, g_a.modulus))

\* A multiplication whose modulus exceeds the square root of the word range
\* and whose product does not fit a word has returned.
C7_Witness ==
    /\ g_op = "mul"
    /\ g_a.modulus = g_b.modulus
    /\ g_a.modulus > 2^(WordBits \div 2)
    /\ g_a.value >= U64 \div 2
    /\ g_b.value >= U64 \div 2
    /\ g_res.value # 0

\* C8: for every base, exponent and modulus m >= 2, what
\* symmetrix_galois_pow returns is the repeated-multiplication baseline: 1
\* multiplied by base e times, reduced modulo m after each step.
C8_PowIsRepeatedMul ==
    (pow_done /\ pow_mod >= 2)
    => pow_result = RepeatedMul(<<1, pow_exp>>, pow_base, pow_mod)

\* The call with exponent 65537 and the modulus three bits below the word
\* width has returned.
C8_Witness ==
    /\ pow_done
    /\ pow_exp = 65537
    /\ pow_mod = 33554393
    /\ pow_result > 1

\* C2: with selection enabled, the node symmetrix_select_cpu returns has an
\* obstruction, the sum over the kinds of
\* max(0, allocated - 0.8 * capacity), that is minimal among the online
\* nodes.  (Stated for the calls that return an online node; that the
\* returned node is online is C4.)
C2_SelectsMinimalObstruction ==
    (sel_done /\ enable_sheaf_scheduler /\ sel_result \in cpu_online)
    => \A c \in cpu_online :
          LeqFifths(SoftOverflow(cpu_stalks[sel_result]), SoftOverflow(cpu_stalks[c]))

\* C3: the dimension the sampler publishes is 0 when all online stalks
\* carry identical allocated[] vectors, and 1 when the allocated value of
\* some resource kind differs between two online stalks.
C3_DimensionReflectsAllocated ==
    h2_cohomology.valid
    => LET identical == \A c, d \in cpu_online :
                            cpu_stalks[c].allocated = cpu_stalks[d].allocated
       IN  /\ identical => h2_cohomology.dimension = 0
           /\ ~identical => h2_cohomology.dimension = 1

\* C4: with selection enabled and at least one node online,
\* symmetrix_select_cpu returns the id of an online node for every prev_cpu
\* and every content of the stalks, and prev_cpu has no influence on the
\* result.
C4_SelectReturnsOnline ==
    (sel_done /\ enable_sheaf_scheduler /\ cpu_online # {})
    => (/\ sel_result \in cpu_online
        /\ \A p \in CpuIds :
              symmetrix_select_cpu(enable_sheaf_scheduler, cpu_stalks, cpu_online, p)
                  = sel_result)

\* C9: with selection enabled and exactly two online nodes, A loaded as in
\* the specification's example and B idle, both with the example's
\* capacity, symmetrix_select_cpu returns B whichever of the two is scanned
\* first and whatever prev_cpu is.
C9_SelectsIdleStalk ==
    (sel_done /\ enable_sheaf_scheduler)
    => \A a, b \in CpuIds :
          (/\ a # b
           /\ cpu_online = {a, b}
           /\ cpu_stalks[a] = Stalk(TestCapacity, TestAllocated)
           /\ cpu_stalks[b] = Stalk(TestCapacity, ZeroVector))
          => sel_result = b

\* The call has returned B although A was scanned first and was prev_cpu.
C9_Witness ==
    /\ sel_done
    /\ enable_sheaf_scheduler
    /\ \E a, b \in CpuIds :
          /\ a < b
          /\ cpu_online = {a, b}
          /\ cpu_stalks[a] = Stalk(TestCapacity, TestAllocated)
          /\ cpu_stalks[b] = Stalk(TestCapacity, ZeroVector)
          /\ sel_prev = a
          /\ sel_result = b

\* C10: with selection disabled, symmetrix_select_cpu(task, prev) returns
\* prev for every prev, every set of online nodes and every content of the
\* stalks.
C10_DisabledReturnsPrev ==
    (sel_done /\ ~enable_sheaf_scheduler) => sel_result = sel_prev

\* The disabled call has returned an offline prev_cpu although an idle
\* node and a loaded node were online.
C10_Witness ==
    /\ sel_done
    /\ ~enable_sheaf_scheduler
    /\ sel_prev \notin cpu_online
    /\ sel_result = sel_prev
    /\ \E a, b \in cpu_online :
          /\ cpu_stalks[a] = Stalk(TestCapacity, TestAllocated)
          /\ cpu_stalks[b] = Stalk(TestCapacity, ZeroVector)

\* C14: a CRT call with num_primes above the table size, or negative,
\* returns -EINVAL and writes neither a residue nor the result output, and
\* leaves the engine as it was.
C14_CrtRejectsOutOfRange ==
    [][(crt_k > SYMMETRIX_NUM_CRT_PRIMES \/ crt_k < 0)
       => (/\ crt_residues' = crt_residues
           /\ crt_out' = crt_out
           /\ galois_engine' = galois_engine
           /\ crt_pc' = "decomposed" => crt_dec_rc' = 0 - EINVAL
           /\ crt_pc' = "reconstructed" => crt_rec_rc' = 0 - EINVAL)]_vars

\* Both calls have returned for a negative num_primes and a nonzero value.
C14_Witness ==
    /\ crt_pc = "reconstructed"
    /\ crt_k < 0
    /\ crt_value # 0
    /\ crt_dec_rc = 0 - EINVAL
    /\ crt_rec_rc = 0 - EINVAL

\* C15: add and mul of operands with different moduli return the element
\* with value 0 and the modulus of a, whatever the operand values.
C15_MismatchYieldsZero ==
    (g_op \in {"add", "mul"} /\ g_a.modulus # g_b.modulus)
    => g_res = Element(0, g_a.modulus)

\* A mismatched add of two nonzero values has returned the zero element.
C15_Witness ==
    /\ g_op = "add"
    /\ g_a.modulus # g_b.modulus
    /\ (g_a.value + g_b.value) % g_a.modulus # 0
    /\ g_res = Element(0, g_a.modulus)

\* C16: for every modulus below half the word range, inv(a) is the element
\* with value 0 and modulus a.modulus whenever a.value is 0 or
\* gcd(a.value, a.modulus) > 1.
C16_NonInvertibleYieldsZero ==
    (/\ g_op = "inv"
     /\ g_a.modulus < U64 \div 2
     /\ (g_a.value = 0 \/ Gcd(g_a.value, g_a.modulus) > 1))
    => g_res = Element(0, g_a.modulus)

\* The mathematical entry (i, j) of the product of a and b modulo p, on
\* st = <<k, sum so far>>.
RECURSIVE RefMatrixEntry(_, _, _, _, _, _, _)
RefMatrixEntry(st, a, b, n, i, j, p) ==
    IF st[1] >= n THEN st[2]
    ELSE RefMatrixEntry(
             <<st[1] + 1,
               (st[2] + RefProductMod(a[(i * n) + st[1] + 1],
                                      b[(st[1] * n) + j + 1], p)) % p>>,
             a, b, n, i, j, p)

\* C19: after symmetrix_galois_init(p) with p >= 2, matrix_mul for n >= 1
\* and entries below p leaves every result[i * n + j] equal to the sum over
\* k of a[i * n + k] * b[k * n + j] modulo p, in [0, p), returns 0, and
\* a[] and b[] are what they were.
C19_MatrixProduct ==
    (mat_done /\ mat_n >= 1 /\ galois_engine.prime >= 2)
    => (/\ mat_rc = 0
        /\ \A i, j \in 0 .. (mat_n - 1) :
              /\ mat_r[(i * mat_n) + j + 1]
                    = RefMatrixEntry(<<0, 0>>, mat_a, mat_b, mat_n, i, j,
                                     galois_engine.prime)
              /\ mat_r[(i * mat_n) + j + 1] \in 0 .. (galois_engine.prime - 1))

\* C18: with the allocator enabled and both allocations succeeding, the
\* block is classified tier 1 iff size <= 64, tier 2 iff
\* 64 < size <= 262144 and tier 3 iff size > 262144; sizes 32, 1000 and
\* 1000000 give tiers 1, 2 and 3.
C18_TierBySize ==
    (ta_pc # "start" /\ enable_tensor_allocator /\ ta_ptr # "NULL")
    => (/\ ta_log.size = ta_size
        /\ ta_log.cache_level = 1 <=> ta_size <= 64
        /\ ta_log.cache_level = 2 <=> (64 < ta_size /\ ta_size <= 262144)
        /\ ta_log.cache_level = 3 <=> ta_size > 262144
        /\ ta_size = 32 => ta_log.cache_level = 1
        /\ ta_size = 1000 => ta_log.cache_level = 2
        /\ ta_size = 1000000 => ta_log.cache_level = 3)

\* A request of exactly the L2 threshold has been classified tier 2.
C18_Witness ==
    /\ ta_pc = "allocated"
    /\ enable_tensor_allocator
    /\ ta_ptr = "data"
    /\ ta_size = 262144
    /\ ta_log.cache_level = 2

\* C20: the sampler's pairwise aggregation ranges over exactly the stalks
\* of the online nodes, the set symmetrix_select_cpu scans: the dimension it
\* publishes is 0 when the vectors it compares (resources[]) agree between
\* all online nodes, and 1 when they differ between two online nodes,
\* whether or not the online ids are 0 .. n-1.
C20_SamplerRangesOverOnline ==
    h2_cohomology.valid
    => LET agree == \A c, d \in cpu_online :
                        cpu_stalks[c].resources = cpu_stalks[d].resources
       IN  h2_cohomology.dimension = (IF agree THEN 0 ELSE 1)

\* The largest age the claim allows: the sampling interval plus the bound
\* on one runnable stretch, in seconds.
AgeBound == SleepSeconds + ((MaxStepTicks + HZ - 1) \div HZ)

C12_ExitJoinsSampler ==
    /\ []((init_pc = "loaded" /\ thr_pc # "exited")
             => (proc_status /\ exit_pc \notin {"joined", "returned"}))
    /\ [][exit_pc = "returned" => h2_cohomology' = h2_cohomology]_vars

\* symmetrix_exit has returned, a sample had been published, and more
\* than the longest age has passed since without a new publication.
C12_Witness ==
    /\ exit_pc = "returned"
    /\ thr_pc = "exited"
    /\ h2_cohomology.valid
    /\ proc_show_age(jiffies, h2_cohomology.computed_at) > AgeBound

\* C13: when symmetrix_init fails, nothing it registered remains: the
\* return value is negative, no status entry and no directory is
\* registered and no sampler thread exists; a failure of kthread_run makes
\* init fail and removes the registered status entry.
C13_InitFailureUnwinds ==
    /\ init_pc = "failed"
          => (/\ init_rc < 0
              /\ ~proc_status
              /\ symmetrix_proc_dir # "registered"
              /\ thr_pc = "none")
    /\ cohomology_thread = "ERR" => init_pc = "failed"

\* kthread_run has failed after the status entry was registered.
C13_Witness ==
    /\ init_pc = "failed"
    /\ cohomology_thread = "ERR"
    /\ symmetrix_proc_dir = "removed"
    /\ ~proc_status

\* C17: a call of symmetrix_select_cpu or of symmetrix_proc_show changes
\* no stalk's capacity or allocated vector, nor the diagnostic state, the
\* active-entity counter or the configuration, and acquires neither a stalk
\* lock nor the global lock.
C17_ReadersAreReadOnly ==
    [][(sel_done' # sel_done \/ rep_done' # rep_done)
       => UNCHANGED <<cpu_stalks, h2_cohomology, active_containers,
                      enable_sheaf_scheduler, enable_tensor_allocator, enable_msi,
                      global_msi_engine, global_lock, stalk_locks>>]_vars

\* Both calls have returned, the selection on loaded stalks with a result
\* other than prev_cpu, the report with the provider's counters.
C17_Witness ==
    /\ sel_done
    /\ rep_done
    /\ enable_sheaf_scheduler
    /\ sel_result # sel_prev
    /\ cpu_stalks[sel_prev] = Stalk(TestCapacity, TestAllocated)
    /\ proc_report.msi_printed
    /\ proc_report.hit_rate_printed
    /\ proc_report.age_printed

\* C21: the sampler tests the stop request once per wake cycle, at the top
\* of its loop: it leaves the test for the body when no stop is requested
\* and exits otherwise, it exits nowhere else, its sleep loses one tick per
\* tick of the clock and is left only when no tick remains, whether a stop
\* has been requested or not, and after a stop request it publishes at most
\* one more sample.
C21_StopTestedOncePerCycle ==
    /\ [](pubs_after_stop <= 1)
    /\ [][/\ (thr_pc = "check" /\ thr_pc' # "check")
                => thr_pc' = (IF should_stop THEN "exited" ELSE "work")
          /\ (thr_pc # "exited" /\ thr_pc' = "exited")
                => (should_stop /\ thr_pc \in {"created", "check"})
          /\ (thr_pc' = "work" /\ thr_pc # "work") => thr_pc = "check"
          /\ (thr_pc = "sleep" /\ thr_pc' # "sleep")
                => (sleep_left = 0 /\ thr_pc' = "check")
          /\ (thr_pc = "sleep" /\ sleep_left' # sleep_left)
                => (sleep_left' = sleep_left - 1 /\ jiffies' = (jiffies + 1) % U64)
         ]_vars

\* A stop requested between the test and the publication: one more sample
\* has been published and the sleep after it has run in full with the stop
\* request pending.
C21_Witness ==
    /\ should_stop
    /\ pubs_after_stop = 1
    /\ thr_pc = "sleep"
    /\ sleep_left = 0

\* C22: every publication stores the dimension, the timestamp jiffies and
\* valid = true and starts a sleep of 30 seconds; the sampler never sleeps
\* before it has published; the diagnostic state changes in no other step;
\* and when a publication follows an earlier one at least 30 seconds have
\* passed since the earlier one.
C22_PublishThenFullSleep ==
    /\ [](thr_pc = "sleep" => h2_cohomology.valid)
    /\ [][/\ (thr_pc = "work" /\ thr_pc' # "work")
                => /\ thr_pc' = "sleep"
                   /\ sleep_left' = SleepSeconds * HZ
                   /\ h2_cohomology' =
                         [dimension   |-> symmetrix_compute_h2_cohomology(
                                              cpu_stalks, num_online_cpus(cpu_online)),
                          computed_at |-> jiffies,
                          valid       |-> TRUE]
                   /\ h2_cohomology.valid
                         => ((jiffies - h2_cohomology.computed_at) % U64)
                               >= SleepSeconds * HZ
          /\ h2_cohomology' # h2_cohomology => thr_pc = "work"
         ]_vars

\* A publication at least 30 seconds after the loading of the module (a
\* second or later one), with its sleep about to start.
C22_Witness ==
    /\ thr_pc = "sleep"
    /\ sleep_left = SleepSeconds * HZ
    /\ h2_cohomology.valid
    /\ h2_cohomology.computed_at = jiffies
    /\ jiffies \in (SleepSeconds * HZ) .. TimeHorizon

MinObstructionNodes ==
    {c \in cpu_online :
        \A d \in cpu_online :
            stalk_obstruction(cpu_stalks[c]) <= stalk_obstruction(cpu_stalks[d])}

\* The lowest-numbered node of a non-empty set: the one the scan reaches
\* first.
FirstScanned(nodes) == CHOOSE c \in nodes : \A d \in nodes : c <= d

\* C24: with selection enabled, when two or more online nodes share the
\* minimum obstruction computed by symmetrix_select_cpu, the node returned
\* is the lowest-numbered online node among them, whatever prev_cpu is.
C24_TieGoesToFirstScanned ==
    (sel_done /\ enable_sheaf_scheduler /\ Cardinality(MinObstructionNodes) >= 2)
    => sel_result = FirstScanned(MinObstructionNodes)

\* C25: the status report polls the provider's counters and prints their
\* section exactly when enable_msi is set; with the provider disabled no
\* counter is read and none is reported, whatever engine is bound; with the
\* provider enabled and no engine bound every reported counter
\* (reconstructions, cache hits, cache misses, amplification operations,
\* ratio, effective and physical capacity) is 0 and no hit rate is
\* computed.
C25_CountersOnlyWhenEnabled ==
    rep_done
    => /\ proc_report.stats_polled = enable_msi
       /\ proc_report.msi_printed = enable_msi
       /\ (~enable_msi \/ ~global_msi_engine.bound)
             => /\ proc_report.reconstructions = 0
                /\ proc_report.cache_hits = 0
                /\ proc_report.cache_misses = 0
                /\ proc_report.amplification_ops = 0
                /\ proc_report.ratio = 0
                /\ proc_report.effective_eb = 0
                /\ proc_report.physical_tb = 0
                /\ ~proc_report.hit_rate_printed
                /\ proc_report.hit_rate = 0

\* A report has been printed with the provider disabled while an engine
\* with counters above 0 was bound.
C25_Witness ==
    /\ rep_done
    /\ ~enable_msi
    /\ global_msi_engine.bound
    /\ global_msi_engine.cache_hits > 0
    /\ ~proc_report.msi_printed

\* C26: a call symmetrix_galois_init(prime) returns 0 when both allocations
\* succeed and -ENOMEM when either fails.  When it returns 0 the engine
\* holds the prime, a live CRT table with the 8 fixed primes in order and a
\* live power cache of 1024 slots, each (value 0, modulus prime).  When it
\* fails, no table the call allocated is still allocated.
C26_InitSucceedsOrUnwinds ==
    eng_op.name = "init"
    => /\ eng_rc = (IF eng_op.crt_ok /\ eng_op.cache_ok THEN 0 ELSE 0 - ENOMEM)
       /\ eng_rc = 0
             => /\ galois_engine.prime = eng_op.prime
                /\ galois_engine.num_crt_primes = 8
                /\ Len(galois_engine.crt_primes) = 8
                /\ galois_engine.crt_primes = symmetrix_crt_primes
                /\ crt_primes_ptr \in eng_live
                /\ power_cache_ptr \in eng_live
                /\ crt_primes_ptr # power_cache_ptr
                /\ eng_allocated = {crt_primes_ptr, power_cache_ptr}
                /\ cache_size = 1024
                /\ DOMAIN power_cache = 0 .. 1023
                /\ \A i \in DOMAIN power_cache :
                      power_cache[i] = [value |-> 0, modulus |-> eng_op.prime]
       /\ eng_rc # 0 => eng_allocated \cap eng_live = {}

\* A call whose second allocation failed has returned: it had allocated
\* the CRT table, and an earlier call's tables are still live.
C26_Witness ==
    /\ eng_op.name = "init"
    /\ eng_op.crt_ok
    /\ ~eng_op.cache_ok
    /\ eng_rc = 0 - ENOMEM
    /\ eng_allocated # {}
    /\ eng_live # {}

\* C28: in every sequence of calls of symmetrix_galois_init (succeeding, or
\* failing at either allocation) and symmetrix_galois_cleanup, no table of
\* the engine is passed to kfree twice.
C28_NoTableReleasedTwice ==
    \A t \in EngineTables : eng_released[t] <= 1

\* C27: under every interleaving of the sampler and a status report, a
\* report that prints valid = Yes also prints an age, and its dimension
\* and its age were read from the fields written by one and the same
\* publication of the sampler.
C27_ReportFromOnePublication ==
    (rd_pc = "done" /\ rd_report.valid)
    => /\ rd_report.age_printed
       /\ rd_n.age >= 1
       /\ rd_n.dimension = rd_n.age

\* C29: a call of symmetrix_tensor_alloc, with the allocator enabled or
\* disabled and each allocation succeeding or failing, adds to the live
\* allocations exactly the block it returns (nothing when it returns NULL),
\* a block that was not live before; the descriptor is live after no call;
\* and the symmetrix_tensor_free of the returned pointer removes exactly
\* that block, so that the live set is again the one before the call.
C29_OnlyReturnedBlockLive ==
    /\ []("block" \notin kmalloc_live)
    /\ []((ta_pc = "freed") => (kmalloc_live \subseteq {"other"}))
    /\ [][/\ (ta_pc = "start" /\ ta_pc' = "allocated")
                => /\ kmalloc_live' =
                         kmalloc_live \cup (IF ta_ptr' = "NULL" THEN {} ELSE {ta_ptr'})
                   /\ ta_ptr' \notin kmalloc_live
          /\ (ta_pc = "allocated" /\ ta_pc' = "freed")
                => /\ kmalloc_live' = kmalloc_live \ {ta_ptr}
                   /\ kmalloc_live' \cup (IF ta_ptr = "NULL" THEN {} ELSE {ta_ptr})
                         = kmalloc_live
         ]_vars

\* With the allocator enabled a block has been returned and freed again,
\* and the allocation of other code is the only one live.
C29_Witness ==
    /\ ta_pc = "freed"
    /\ enable_tensor_allocator
    /\ ta_ptr = "data"
    /\ kmalloc_live = {"other"}

\* C30: under every interleaving of msi_fpga_remove with a call of
\* msi_amplify_storage_access and a call of msi_get_performance_stats in
\* flight, neither call reads or writes the provider engine after
\* msi_fpga_remove has passed it to kfree.
C30_NoEngineAccessAfterFree ==
    msi_stale_access = {}

====
